---- MODULE Spec2Model ----
(***************************************************************************)
(* A model of code-context-cli: the budget fitter (budget.ts), the chunker *)
(* (chunker.ts), the interactive file selection (tui/App.tsx), the tree    *)
(* functions it calls (tui/tree-utils.ts), the formatter (formatter.ts),   *)
(* the budget strings and the token estimate (tokenizer.ts) and the symbol *)
(* parser (parser.ts, patterns.ts).  Each component has its own            *)
(* specification over the shared variables; the variables of the other     *)
(* components stay idle.                                                   *)
(*                                                                         *)
(* Strings are tuples of one-character strings, so that String.includes    *)
(* and String.split are computed, not assumed.  A ScanResult is the record *)
(* [path, tokens] for the budget, the chunker and the trees (tokens is the *)
(* length of encode(content) of the gpt-tokenizer library, which the       *)
(* scanner also caches as tokenInfo.tokens; it is a natural number) and    *)
(* the record [path, language, content] for the formatter.  The texts of   *)
(* the parser are tuples of tokens: a word is one element.                 *)
(***************************************************************************)
EXTENDS Integers, Sequences, FiniteSets, TLC

VARIABLES
    \* ---- budget.ts: one call of fitToBudget
    results,        \* the ScanResult[] argument
    config,         \* the BudgetConfig argument
    budgetPc,       \* "call", "walk", "done"
    sortedFiles,    \* the array returned by sortByPriority
    walkPos,        \* position of the for..of loop in sortedFiles
    included,
    excluded,
    totalTokens,
    budgetResult,   \* the returned BudgetResult
    \* ---- chunker.ts: one call of splitToChunks
    chunkInput,     \* the ScanResult[] argument
    chunkOptions,   \* the ChunkOptions argument
    chunkPc,        \* "loop", "last", "total", "done"
    chunkPos,       \* position of the for..of loop in filesWithTokens
    chunks,
    currentChunk,
    currentTokens,
    \* ---- tui/App.tsx: the App component's state
    scanned,        \* useState results
    tree,           \* useState tree
    cursor,
    filter,
    isSearching,
    lastKey,
    previewOffset,
    loading,        \* TRUE until the scan promise resolves
    appPc,          \* "running", "exited"
    handed,         \* what was handed to format() on confirm
    held,           \* the tree object a reader got before the last setTree
    pressed,        \* the key the last step handed to useInput, "" if none
    promise,        \* the promise of launchTUI: "pending", "resolved"
    clipboard,      \* clipboard.write of onComplete: "idle", "writing", ...
    \* ---- tui/tree-utils.ts: a caller of the tree functions
    treeFiles,      \* the ScanResult[] handed to buildFileTree
    treePc,         \* "new" before buildFileTree, "built" after
    treeNodes,      \* the FileNode[] the caller holds
    treeBefore,     \* treeNodes as it was before the last call
    treeCall,       \* the last call: its function and its targetPath
    treeReturn,     \* what the last call returned
    \* ---- formatter.ts: one call of format
    fmtResults,     \* the ScanResult[] argument
    fmtOptions,     \* the FormatOptions argument
    fmtPc,          \* "call", "files", "done"
    fmtPos,         \* position of the for..of loop over the results
    fmtLines,       \* the lines array
    fmtOutput,      \* the returned string
    \* ---- tokenizer.ts: one call of parseBudget or estimateTokens
    tokText,        \* the string argument
    tokCall,        \* the function called, "none" before the call
    tokReturn,      \* what the call returned, or the error it threw
    \* ---- parser.ts: the calls of parseSymbols in one process
    treeSitterAvailable,    \* the module flag: "null", "true", "false"
    symContent,     \* the content argument
    symLanguage,    \* the language argument
    symPc,          \* "call", "loaded", "done"
    symThrew,       \* TRUE when parseWithTreeSitter threw in this call
    symReturn,      \* what the call returned
    symCalls        \* the calls made so far

budgetVars == <<results, config, budgetPc, sortedFiles, walkPos, included,
                excluded, totalTokens, budgetResult>>
chunkVars == <<chunkInput, chunkOptions, chunkPc, chunkPos, chunks,
               currentChunk, currentTokens>>
tuiVars == <<scanned, tree, cursor, filter, isSearching, lastKey,
             previewOffset, loading, appPc, handed, held, pressed, promise,
             clipboard>>
treeVars == <<treeFiles, treePc, treeNodes, treeBefore, treeCall, treeReturn>>
fmtVars == <<fmtResults, fmtOptions, fmtPc, fmtPos, fmtLines, fmtOutput>>
tokVars == <<tokText, tokCall, tokReturn>>
symVars == <<treeSitterAvailable, symContent, symLanguage, symPc, symThrew,
             symReturn, symCalls>>
vars == <<budgetVars, chunkVars, tuiVars, treeVars, fmtVars, tokVars, symVars>>

\* what the actions of one component leave alone
budgetRest == <<chunkVars, tuiVars, treeVars, fmtVars, tokVars, symVars>>
chunkRest == <<budgetVars, tuiVars, treeVars, fmtVars, tokVars, symVars>>
tuiRest == <<budgetVars, chunkVars, treeVars, fmtVars, tokVars, symVars>>
treeRest == <<budgetVars, chunkVars, tuiVars, fmtVars, tokVars, symVars>>
fmtRest == <<budgetVars, chunkVars, tuiVars, treeVars, tokVars, symVars>>
tokRest == <<budgetVars, chunkVars, tuiVars, treeVars, fmtVars, symVars>>
symRest == <<budgetVars, chunkVars, tuiVars, treeVars, fmtVars, tokVars>>

-----------------------------------------------------------------------------
(* Strings *)

\* String.prototype.includes
includes(s, p) ==
    \E i \in 0..(Len(s) - Len(p)) : SubSeq(s, i + 1, i + Len(p)) = p

RECURSIVE SumTokens(_)
SumTokens(files) ==
    IF files = <<>> THEN 0 ELSE Head(files).tokens + SumTokens(Tail(files))

Range(s) == {s[i] : i \in DOMAIN s}

-----------------------------------------------------------------------------
(* Bounds of the budget model *)

MaxFiles == 3
MaxFileTokens == 2
MaxBudget == 3

\* Paths the scanner may report, and the priority pattern lists tried.
BudgetPaths == {<<"a">>, <<"b">>, <<"a", "b">>, <<"b", "a">>}
PatternChoices == {<<>>, <<<<"a">>>>, <<<<"a", "b">>, <<"b", "b">>>>}
ReserveChoices == {0, 1}

RECURSIVE SeqsUpTo(_, _)
SeqsUpTo(S, n) ==
    IF n = 0 THEN {<<>>}
    ELSE LET shorter == SeqsUpTo(S, n - 1)
         IN shorter \cup {Append(s, x) : s \in {t \in shorter : Len(t) = n - 1}, x \in S}

ScanResults(paths, maxTokens) == [path : paths, tokens : 0..maxTokens]

BudgetInputs ==
    {s \in SeqsUpTo(ScanResults(BudgetPaths, MaxFileTokens), MaxFiles) :
        \A i, j \in DOMAIN s : i # j => s[i].path # s[j].path}

BudgetConfigs ==
    [maxTokens : 0..MaxBudget, reserveTokens : ReserveChoices,
     priorityPatterns : PatternChoices]

-----------------------------------------------------------------------------
(* budget.ts *)

\* calcFileTokens: pairs each result with countTokens(result.content).tokens
calcFileTokens(rs) ==
    [i \in DOMAIN rs |-> [result |-> rs[i], tokens |-> rs[i].tokens]]

\* priorityPatterns.some(p => path.includes(p))
priorityMatch(path, priorityPatterns) ==
    \E k \in DOMAIN priorityPatterns : includes(path, priorityPatterns[k])

\* Mutant: the priority test has the wrong sign (matching files go last).
compareFiles_prioritySign(a, b, priorityPatterns) ==
    LET aMatch == priorityMatch(a.result.path, priorityPatterns)
        bMatch == priorityMatch(b.result.path, priorityPatterns)
    IN IF aMatch # bMatch THEN (IF aMatch THEN 1 ELSE -1)
       ELSE a.tokens - b.tokens

\* the comparator handed to Array.prototype.sort
compareFiles(a, b, priorityPatterns) ==
    LET aMatch == priorityMatch(a.result.path, priorityPatterns)
        bMatch == priorityMatch(b.result.path, priorityPatterns)
    IN IF aMatch # bMatch THEN (IF aMatch THEN -1 ELSE 1)
       ELSE a.tokens - b.tokens

\* Array.prototype.sort is stable: x goes after every element that does not
\* compare greater than it.
RECURSIVE insertFile(_, _, _)
insertFile(sorted, x, priorityPatterns) ==
    IF sorted = <<>> THEN <<x>>
    ELSE IF compareFiles(Head(sorted), x, priorityPatterns) <= 0
         THEN <<Head(sorted)>> \o insertFile(Tail(sorted), x, priorityPatterns)
         ELSE <<x>> \o sorted

RECURSIVE sortByPriority(_, _)
sortByPriority(files, priorityPatterns) ==
    IF files = <<>> THEN <<>>
    ELSE insertFile(sortByPriority(SubSeq(files, 1, Len(files) - 1), priorityPatterns),
                    files[Len(files)], priorityPatterns)

effectiveBudget(cfg) == cfg.maxTokens - cfg.reserveTokens

\* Mutant: the running total is left out of the test.
fitsBudget_noTotal(total, tokens, budget) == tokens <= budget

\* Mutant: the comparison is strict.
fitsBudget_strict(total, tokens, budget) == total + tokens < budget

\* the test of the loop body: totalTokens + tokens <= effectiveBudget
fitsBudget(total, tokens, budget) == total + tokens <= budget

\* Mutant: a file that does not fit is dropped instead of pushed to excluded.
walkStep_dropsExcluded(acc, item, budget) ==
    IF fitsBudget(acc.totalTokens, item.tokens, budget)
    THEN [included |-> Append(acc.included, item.result),
          excluded |-> acc.excluded,
          totalTokens |-> acc.totalTokens + item.tokens]
    ELSE acc

\* one iteration of the for..of loop on the accumulators
walkStep(acc, item, budget) ==
    IF fitsBudget(acc.totalTokens, item.tokens, budget)
    THEN [included |-> Append(acc.included, item.result),
          excluded |-> acc.excluded,
          totalTokens |-> acc.totalTokens + item.tokens]
    ELSE [included |-> acc.included,
          excluded |-> Append(acc.excluded, item.result),
          totalTokens |-> acc.totalTokens]

RECURSIVE walk(_, _, _)
walk(acc, files, budget) ==
    IF files = <<>> THEN acc
    ELSE walk(walkStep(acc, Head(files), budget), Tail(files), budget)

\* Mutant: the used tokens are not subtracted from the budget.
makeResult_noSubtract(acc, budget) ==
    [included |-> acc.included,
     excluded |-> acc.excluded,
     totalTokens |-> acc.totalTokens,
     budgetUsed |-> acc.totalTokens,
     budgetRemaining |-> budget]

makeResult(acc, budget) ==
    [included |-> acc.included,
     excluded |-> acc.excluded,
     totalTokens |-> acc.totalTokens,
     budgetUsed |-> acc.totalTokens,
     budgetRemaining |-> budget - acc.totalTokens]

\* fitToBudget as a function of its arguments
fitToBudget(rs, cfg) ==
    makeResult(walk([included |-> <<>>, excluded |-> <<>>, totalTokens |-> 0],
                    sortByPriority(calcFileTokens(rs), cfg.priorityPatterns),
                    effectiveBudget(cfg)),
               effectiveBudget(cfg))

NoConfig == [maxTokens |-> 0, reserveTokens |-> 0, priorityPatterns |-> <<>>]

NoResult == [included |-> <<>>, excluded |-> <<>>, totalTokens |-> 0,
             budgetUsed |-> 0, budgetRemaining |-> 0]

\* lines 157-165: destructure the config, count, sort, initialise
FitSort ==
    /\ budgetPc = "call"
    /\ sortedFiles' = sortByPriority(calcFileTokens(results), config.priorityPatterns)
    /\ walkPos' = 1
    /\ included' = <<>>
    /\ excluded' = <<>>
    /\ totalTokens' = 0
    /\ budgetPc' = "walk"
    /\ UNCHANGED <<results, config, budgetResult>>
    /\ UNCHANGED budgetRest

\* the accumulators of the loop as walkStep takes them
walkAcc == [included |-> included, excluded |-> excluded, totalTokens |-> totalTokens]

\* lines 167-174: one iteration, the file fits
FitInclude ==
    /\ budgetPc = "walk"
    /\ walkPos <= Len(sortedFiles)
    /\ fitsBudget(totalTokens, sortedFiles[walkPos].tokens, effectiveBudget(config))
    /\ LET acc == walkStep(walkAcc, sortedFiles[walkPos], effectiveBudget(config))
       IN /\ included' = acc.included
          /\ excluded' = acc.excluded
          /\ totalTokens' = acc.totalTokens
    /\ walkPos' = walkPos + 1
    /\ UNCHANGED <<results, config, budgetPc, sortedFiles, budgetResult>>
    /\ UNCHANGED budgetRest

\* lines 167-174: one iteration, the file does not fit
FitExclude ==
    /\ budgetPc = "walk"
    /\ walkPos <= Len(sortedFiles)
    /\ ~fitsBudget(totalTokens, sortedFiles[walkPos].tokens, effectiveBudget(config))
    /\ LET acc == walkStep(walkAcc, sortedFiles[walkPos], effectiveBudget(config))
       IN /\ included' = acc.included
          /\ excluded' = acc.excluded
          /\ totalTokens' = acc.totalTokens
    /\ walkPos' = walkPos + 1
    /\ UNCHANGED <<results, config, budgetPc, sortedFiles, budgetResult>>
    /\ UNCHANGED budgetRest

\* lines 176-182: the loop is over, build the BudgetResult
FitReturn ==
    /\ budgetPc = "walk"
    /\ walkPos > Len(sortedFiles)
    /\ budgetResult' = makeResult(walkAcc, effectiveBudget(config))
    /\ budgetPc' = "done"
    /\ UNCHANGED <<results, config, sortedFiles, walkPos, included, excluded,
                   totalTokens>>
    /\ UNCHANGED budgetRest

-----------------------------------------------------------------------------
(* Bounds of the chunker model *)

MaxChunkFiles == 4
MaxChunkFileTokens == 3
MaxChunkTokens == 3
MaxOverlap == 2

\* The i-th scanned file has the path "f", "ff", "fff", ...: distinct paths.
ChunkPath(i) == [k \in 1..i |-> "f"]

ChunkInputs ==
    UNION {{[i \in 1..n |-> [path |-> ChunkPath(i), tokens |-> t[i]]] :
                t \in [1..n -> 0..MaxChunkFileTokens]} : n \in 0..MaxChunkFiles}

NoOptions == [maxTokensPerChunk |-> 0, overlap |-> 0]

ChunkOptionsSet ==
    [maxTokensPerChunk : 0..MaxChunkTokens, overlap : 0..MaxOverlap]

-----------------------------------------------------------------------------
(* chunker.ts *)

\* Array.prototype.slice(-n) for an integer n > 0: the last n elements, or all
sliceLast(arr, n) ==
    SubSeq(arr, IF Len(arr) > n THEN Len(arr) - n + 1 ELSE 1, Len(arr))

\* the chunk literal pushed at lines 40-45, 51-56, 67-72 and 91-96
newChunk(list, files, tokens) ==
    [index |-> Len(list), total |-> 0, files |-> files, tokens |-> tokens]

\* lines 76-78: the files carried over into the next chunk
overlapFiles(chunk, overlap) ==
    IF overlap > 0 THEN sliceLast(chunk, overlap) ELSE <<>>

\* Mutant: each chunk gets the count at the time it was pushed.
setTotals_stale(list) ==
    [i \in DOMAIN list |-> [list[i] EXCEPT !.total = i]]

\* lines 100-103: every chunk gets the final count
setTotals(list) ==
    [i \in DOMAIN list |-> [list[i] EXCEPT !.total = Len(list)]]

\* Mutant: the accumulator is not emptied after it is saved.
ChunkOversized_keepsAccumulator ==
    /\ chunkPc = "loop"
    /\ chunkPos <= Len(chunkInput)
    /\ chunkInput[chunkPos].tokens > chunkOptions.maxTokensPerChunk
    /\ LET flushed == IF Len(currentChunk) > 0
                      THEN Append(chunks, newChunk(chunks, currentChunk, currentTokens))
                      ELSE chunks
       IN chunks' = Append(flushed, newChunk(flushed, <<chunkInput[chunkPos]>>,
                                             chunkInput[chunkPos].tokens))
    /\ chunkPos' = chunkPos + 1
    /\ UNCHANGED <<chunkInput, chunkOptions, chunkPc, currentChunk, currentTokens>>
    /\ UNCHANGED chunkRest

\* lines 37-58: the file alone exceeds the limit
ChunkOversized ==
    /\ chunkPc = "loop"
    /\ chunkPos <= Len(chunkInput)
    /\ chunkInput[chunkPos].tokens > chunkOptions.maxTokensPerChunk
    /\ LET flushed == IF Len(currentChunk) > 0
                      THEN Append(chunks, newChunk(chunks, currentChunk, currentTokens))
                      ELSE chunks
       IN chunks' = Append(flushed, newChunk(flushed, <<chunkInput[chunkPos]>>,
                                             chunkInput[chunkPos].tokens))
    /\ currentChunk' = IF Len(currentChunk) > 0 THEN <<>> ELSE currentChunk
    /\ currentTokens' = IF Len(currentChunk) > 0 THEN 0 ELSE currentTokens
    /\ chunkPos' = chunkPos + 1
    /\ UNCHANGED <<chunkInput, chunkOptions, chunkPc>>
    /\ UNCHANGED chunkRest

\* lines 61-63: the file fits in the current chunk
ChunkAppend ==
    /\ chunkPc = "loop"
    /\ chunkPos <= Len(chunkInput)
    /\ ~(chunkInput[chunkPos].tokens > chunkOptions.maxTokensPerChunk)
    /\ currentTokens + chunkInput[chunkPos].tokens <= chunkOptions.maxTokensPerChunk
    /\ currentChunk' = Append(currentChunk, chunkInput[chunkPos])
    /\ currentTokens' = currentTokens + chunkInput[chunkPos].tokens
    /\ chunkPos' = chunkPos + 1
    /\ UNCHANGED <<chunkInput, chunkOptions, chunkPc, chunks>>
    /\ UNCHANGED chunkRest

\* lines 64-86: the file does not fit: save the chunk, start one with overlap
ChunkFlush ==
    /\ chunkPc = "loop"
    /\ chunkPos <= Len(chunkInput)
    /\ ~(chunkInput[chunkPos].tokens > chunkOptions.maxTokensPerChunk)
    /\ ~(currentTokens + chunkInput[chunkPos].tokens <= chunkOptions.maxTokensPerChunk)
    /\ chunks' = IF Len(currentChunk) > 0
                 THEN Append(chunks, newChunk(chunks, currentChunk, currentTokens))
                 ELSE chunks
    /\ LET carried == overlapFiles(currentChunk, chunkOptions.overlap)
       IN /\ currentChunk' = carried \o <<chunkInput[chunkPos]>>
          /\ currentTokens' = SumTokens(carried) + chunkInput[chunkPos].tokens
    /\ chunkPos' = chunkPos + 1
    /\ UNCHANGED <<chunkInput, chunkOptions, chunkPc>>
    /\ UNCHANGED chunkRest

\* Mutant: the last chunk is forgotten.
ChunkLast_forgotten ==
    /\ chunkPc = "loop"
    /\ chunkPos > Len(chunkInput)
    /\ chunkPc' = "total"
    /\ UNCHANGED <<chunkInput, chunkOptions, chunkPos, chunks, currentChunk,
                   currentTokens>>
    /\ UNCHANGED chunkRest

\* lines 90-97: after the loop, the last chunk
ChunkLast ==
    /\ chunkPc = "loop"
    /\ chunkPos > Len(chunkInput)
    /\ chunks' = IF Len(currentChunk) > 0
                 THEN Append(chunks, newChunk(chunks, currentChunk, currentTokens))
                 ELSE chunks
    /\ chunkPc' = "total"
    /\ UNCHANGED <<chunkInput, chunkOptions, chunkPos, currentChunk, currentTokens>>
    /\ UNCHANGED chunkRest

\* lines 100-105: update the totals and return
ChunkTotal ==
    /\ chunkPc = "total"
    /\ chunks' = setTotals(chunks)
    /\ chunkPc' = "done"
    /\ UNCHANGED <<chunkInput, chunkOptions, chunkPos, currentChunk, currentTokens>>
    /\ UNCHANGED chunkRest

-----------------------------------------------------------------------------
(* tui/App.tsx, tui/tree-utils.ts *)

NotHanded == [confirmed |-> FALSE, files |-> <<>>]
NotHeld == [was |-> <<>>, now |-> <<>>]

\* ---- strings

\* String.prototype.split(sep) for a one-character separator
RECURSIVE split(_, _)
split(s, sep) ==
    IF \E i \in DOMAIN s : s[i] = sep
    THEN LET i == CHOOSE i \in DOMAIN s :
                      s[i] = sep /\ \A j \in 1..(i - 1) : s[j] # sep
         IN <<SubSeq(s, 1, i - 1)>> \o split(SubSeq(s, i + 1, Len(s)), sep)
    ELSE <<s>>

\* The characters of the model in collation order (punctuation, then letters,
\* a lower-case letter before its upper-case form).
CharOrder == <<".", "/", "a", "A", "b", "d", "e", "l", "r", "s", "t", "u">>

Rank(c) == CHOOSE i \in DOMAIN CharOrder : CharOrder[i] = c

\* String.prototype.localeCompare
RECURSIVE localeCompare(_, _)
localeCompare(a, b) ==
    IF a = <<>> /\ b = <<>> THEN 0
    ELSE IF a = <<>> THEN -1
    ELSE IF b = <<>> THEN 1
    ELSE IF Rank(Head(a)) < Rank(Head(b)) THEN -1
    ELSE IF Rank(Head(a)) > Rank(Head(b)) THEN 1
    ELSE localeCompare(Tail(a), Tail(b))

\* String.prototype.toLowerCase.  A character outside ASCII is written by its
\* name: the Kelvin sign U+212A has the lower-case form k.
toLowerCase(s) ==
    [i \in DOMAIN s |->
        CASE s[i] = "A" -> "a"
          [] s[i] = "K" -> "k"
          [] s[i] = "U+212A" -> "k"
          [] OTHER -> s[i]]

\* ---- JavaScript values: an object is its entries in insertion order

Undefined == [t |-> "undefined"]
Obj(entries) == [t |-> "obj", e |-> entries]
Num(n) == [t |-> "num", n |-> n]
Scan(r) == [t |-> "scan", r |-> r]

KeyResult == <<"r", "e", "s", "u", "l", "t">>
KeyTokens == <<"t", "o", "k", "e", "n", "s">>

truthy(v) == v.t \in {"obj", "scan"} \/ (v.t = "num" /\ v.n # 0)

\* obj[key]
get(obj, key) ==
    IF obj.t = "obj" /\ \E i \in DOMAIN obj.e : obj.e[i].k = key
    THEN obj.e[CHOOSE i \in DOMAIN obj.e : obj.e[i].k = key].v
    ELSE Undefined

\* obj[key] = v: an existing key keeps its place, a new key goes last
put(obj, key, v) ==
    IF \E i \in DOMAIN obj.e : obj.e[i].k = key
    THEN Obj([i \in DOMAIN obj.e |->
                 IF obj.e[i].k = key THEN [k |-> key, v |-> v] ELSE obj.e[i]])
    ELSE Obj(Append(obj.e, [k |-> key, v |-> v]))

\* ---- tree-utils.ts: buildFileTree

\* lines 294-302: the inner loop over the parts of one path.  Descending
\* through a value that is not a plain object (a ScanResult, a number) is not
\* modelled: no file of the model lies below another file.
RECURSIVE insertResult(_, _, _)
insertResult(current, parts, result) ==
    IF Len(parts) = 1
    THEN put(current, parts[1],
             Obj(<<[k |-> KeyResult, v |-> Scan(result)],
                   [k |-> KeyTokens, v |-> Num(result.tokens)]>>))
    ELSE LET found == get(current, parts[1])
             next == IF ~truthy(found) THEN Obj(<<>>) ELSE found
         IN IF next.t = "obj"
            THEN put(current, parts[1], insertResult(next, Tail(parts), result))
            ELSE current

\* lines 288-303: the root object after the loop over the results
RECURSIVE buildRoot(_)
buildRoot(rs) ==
    IF rs = <<>> THEN Obj(<<>>)
    ELSE insertResult(buildRoot(SubSeq(rs, 1, Len(rs) - 1)),
                      split(rs[Len(rs)].path, "/"), rs[Len(rs)])

\* lines 329-332: the comparator of toNodes
compareNodes(a, b) ==
    IF a.isDir # b.isDir THEN (IF a.isDir THEN -1 ELSE 1)
    ELSE localeCompare(a.name, b.name)

RECURSIVE insertNode(_, _)
insertNode(sorted, x) ==
    IF sorted = <<>> THEN <<x>>
    ELSE IF compareNodes(Head(sorted), x) <= 0
         THEN <<Head(sorted)>> \o insertNode(Tail(sorted), x)
         ELSE <<x>> \o sorted

RECURSIVE sortNodes(_)
sortNodes(nodes) ==
    IF nodes = <<>> THEN <<>>
    ELSE insertNode(sortNodes(SubSeq(nodes, 1, Len(nodes) - 1)), nodes[Len(nodes)])

\* lines 305-333.  A FileNode is a record of all eight fields: a leaf has
\* children = <<>> and a directory result = tokens = Undefined, so the code's
\* test `node.children` is the model's node.isDir.
RECURSIVE toNodes(_, _)
toNodes(obj, parentPath) ==
    sortNodes([i \in DOMAIN obj.e |->
        LET name == obj.e[i].k
            value == obj.e[i].v
            path == IF parentPath # <<>> THEN parentPath \o <<"/">> \o name ELSE name
        IN IF truthy(get(value, KeyResult))
           THEN [name |-> name, path |-> path, isDir |-> FALSE, children |-> <<>>,
                 result |-> get(value, KeyResult), tokens |-> get(value, KeyTokens),
                 selected |-> FALSE, expanded |-> FALSE]
           ELSE [name |-> name, path |-> path, isDir |-> TRUE,
                 children |-> toNodes(value, path),
                 result |-> Undefined, tokens |-> Undefined,
                 selected |-> FALSE, expanded |-> TRUE]])

buildFileTree(rs) == toNodes(buildRoot(rs), <<>>)

\* ---- tree-utils.ts: traversal and operations

\* toggleTestFiles, line 233
testPatterns ==
    << <<".", "t", "e", "s", "t", ".">>, <<".", "s", "p", "e", "c", ".">>,
       <<"_", "_", "t", "e", "s", "t", "s", "_", "_">> >>

\* Mutant: invertSelection without its test of isDir.
visit_invertsDirectories(visitor, node) ==
    CASE visitor = "selectAll" -> [node EXCEPT !.selected = TRUE]
      [] visitor = "deselectAll" -> [node EXCEPT !.selected = FALSE]
      [] visitor = "invertSelection" -> [node EXCEPT !.selected = ~node.selected]
      [] visitor = "expandAll" ->
            IF node.isDir THEN [node EXCEPT !.expanded = TRUE] ELSE node
      [] visitor = "collapseAll" ->
            IF node.isDir THEN [node EXCEPT !.expanded = FALSE] ELSE node
      [] visitor = "toggleTestFiles" ->
            IF /\ ~node.isDir
               /\ \E i \in DOMAIN testPatterns : includes(node.path, testPatterns[i])
            THEN [node EXCEPT !.selected = ~node.selected]
            ELSE node

\* the visitors handed to traverseTree
visit(visitor, node) ==
    CASE visitor = "selectAll" -> [node EXCEPT !.selected = TRUE]
      [] visitor = "deselectAll" -> [node EXCEPT !.selected = FALSE]
      [] visitor = "invertSelection" ->
            IF ~node.isDir THEN [node EXCEPT !.selected = ~node.selected] ELSE node
      [] visitor = "expandAll" ->
            IF node.isDir THEN [node EXCEPT !.expanded = TRUE] ELSE node
      [] visitor = "collapseAll" ->
            IF node.isDir THEN [node EXCEPT !.expanded = FALSE] ELSE node
      [] visitor = "toggleTestFiles" ->
            IF /\ ~node.isDir
               /\ \E i \in DOMAIN testPatterns : includes(node.path, testPatterns[i])
            THEN [node EXCEPT !.selected = ~node.selected]
            ELSE node

RECURSIVE traverseTree(_, _)
traverseTree(nodes, visitor) ==
    [i \in DOMAIN nodes |->
        LET visited == visit(visitor, nodes[i])
        IN IF visited.isDir
           THEN [visited EXCEPT !.children = traverseTree(visited.children, visitor)]
           ELSE visited]

RECURSIVE setChildrenSelected(_, _)
setChildrenSelected(children, selected) ==
    [i \in DOMAIN children |->
        IF children[i].isDir
        THEN [children[i] EXCEPT !.selected = selected,
                                 !.children = setChildrenSelected(children[i].children, selected)]
        ELSE [children[i] EXCEPT !.selected = selected]]

\* Mutant: toggleCurrentDirSelection takes anySelected over all descendants.
apply_anyDescendant(op, node) ==
    CASE op = "toggleSelection" ->
            IF node.isDir
            THEN [node EXCEPT !.selected = ~node.selected,
                              !.children = setChildrenSelected(node.children, ~node.selected)]
            ELSE [node EXCEPT !.selected = ~node.selected]
      [] op = "toggleExpand" ->
            IF node.isDir THEN [node EXCEPT !.expanded = ~node.expanded] ELSE node
      [] op = "expand" -> [node EXCEPT !.expanded = TRUE]
      [] op = "toggleCurrentDirSelection" ->
            IF node.isDir
            THEN LET anySelected ==
                         setChildrenSelected(node.children, FALSE) # node.children
                 IN [node EXCEPT !.children = setChildrenSelected(node.children, ~anySelected),
                                 !.selected = ~anySelected]
            ELSE node

\* the callbacks handed to findAndApply
apply(op, node) ==
    CASE op = "toggleSelection" ->
            IF node.isDir
            THEN [node EXCEPT !.selected = ~node.selected,
                              !.children = setChildrenSelected(node.children, ~node.selected)]
            ELSE [node EXCEPT !.selected = ~node.selected]
      [] op = "toggleExpand" ->
            IF node.isDir THEN [node EXCEPT !.expanded = ~node.expanded] ELSE node
      [] op = "expand" -> [node EXCEPT !.expanded = TRUE]
      [] op = "toggleCurrentDirSelection" ->
            IF node.isDir
            THEN LET anySelected == \E i \in DOMAIN node.children :
                                        node.children[i].selected
                 IN [node EXCEPT !.children = setChildrenSelected(node.children, ~anySelected),
                                 !.selected = ~anySelected]
            ELSE node

\* findAndApply: [found, nodes], nodes being the forest after the callback
RECURSIVE findAndApply(_, _, _)
findAndApply(nodes, targetPath, op) ==
    IF nodes = <<>> THEN [found |-> FALSE, nodes |-> <<>>]
    ELSE LET node == Head(nodes)
         IN IF node.path = targetPath
            THEN [found |-> TRUE, nodes |-> <<apply(op, node)>> \o Tail(nodes)]
            ELSE LET below == IF node.isDir
                              THEN findAndApply(node.children, targetPath, op)
                              ELSE [found |-> FALSE, nodes |-> <<>>]
                 IN IF below.found
                    THEN [found |-> TRUE,
                          nodes |-> <<[node EXCEPT !.children = below.nodes]>> \o Tail(nodes)]
                    ELSE LET rest == findAndApply(Tail(nodes), targetPath, op)
                         IN [found |-> rest.found, nodes |-> <<node>> \o rest.nodes]

toggleSelection(nodes, targetPath) == findAndApply(nodes, targetPath, "toggleSelection").nodes
toggleExpand(nodes, targetPath) == findAndApply(nodes, targetPath, "toggleExpand").nodes
selectAll(nodes) == traverseTree(nodes, "selectAll")
deselectAll(nodes) == traverseTree(nodes, "deselectAll")
invertSelection(nodes) == traverseTree(nodes, "invertSelection")
expandAll(nodes) == traverseTree(nodes, "expandAll")
collapseAll(nodes) == traverseTree(nodes, "collapseAll")
toggleCurrentDirSelection(nodes, targetPath) ==
    findAndApply(nodes, targetPath, "toggleCurrentDirSelection").nodes
toggleTestFiles(nodes) == traverseTree(nodes, "toggleTestFiles")

\* getSelectedStats, lines 268-280: the visitor counts a node when
\* `node.selected && !node.isDir && node.tokens`, and a token count of 0 is
\* falsy.
RECURSIVE getSelectedStats(_)
getSelectedStats(nodes) ==
    IF nodes = <<>> THEN [count |-> 0, tokens |-> 0]
    ELSE LET node == Head(nodes)
             own == IF node.selected /\ ~node.isDir /\ truthy(node.tokens)
                    THEN [count |-> 1, tokens |-> node.tokens.n]
                    ELSE [count |-> 0, tokens |-> 0]
             below == IF node.isDir THEN getSelectedStats(node.children)
                      ELSE [count |-> 0, tokens |-> 0]
             rest == getSelectedStats(Tail(nodes))
         IN [count |-> own.count + below.count + rest.count,
             tokens |-> own.tokens + below.tokens + rest.tokens]

\* isNodeSelected, lines 118-127.  The recursive call returns a boolean, never
\* undefined, so `if (found !== undefined) return found` always returns: the
\* first node with children ends the search of its list.
RECURSIVE isNodeSelected(_, _)
isNodeSelected(nodes, path) ==
    IF nodes = <<>> THEN FALSE
    ELSE LET node == Head(nodes)
         IN IF node.path = path THEN node.selected
            ELSE IF node.isDir THEN isNodeSelected(node.children, path)
            ELSE isNodeSelected(Tail(nodes), path)

\* Mutant: the children of a collapsed directory are emitted too.
RECURSIVE flattenTree_ignoresExpanded(_, _)
flattenTree_ignoresExpanded(nodes, depth) ==
    IF nodes = <<>> THEN <<>>
    ELSE LET node == Head(nodes)
         IN <<[node |-> node, depth |-> depth]>>
            \o (IF node.isDir
                THEN flattenTree_ignoresExpanded(node.children, depth + 1) ELSE <<>>)
            \o flattenTree_ignoresExpanded(Tail(nodes), depth)

RECURSIVE flattenTree(_, _)
flattenTree(nodes, depth) ==
    IF nodes = <<>> THEN <<>>
    ELSE LET node == Head(nodes)
         IN <<[node |-> node, depth |-> depth]>>
            \o (IF node.isDir /\ node.expanded
                THEN flattenTree(node.children, depth + 1) ELSE <<>>)
            \o flattenTree(Tail(nodes), depth)

\* cloneTree: JSON.parse(JSON.stringify(nodes)) rebuilds every node from its
\* fields; all eight are JSON values.
RECURSIVE cloneTree(_)
cloneTree(nodes) ==
    [i \in DOMAIN nodes |->
        [name |-> nodes[i].name, path |-> nodes[i].path, isDir |-> nodes[i].isDir,
         children |-> cloneTree(nodes[i].children), result |-> nodes[i].result,
         tokens |-> nodes[i].tokens, selected |-> nodes[i].selected,
         expanded |-> nodes[i].expanded]]

-----------------------------------------------------------------------------
(* tui/tree-utils.ts: a caller that builds a tree and calls the functions *)

MaxTreeFiles == 2
MaxTreeTokens == 1

\* The paths a scan of the model may hold: a top-level file, files of two
\* sibling directories, a file of a nested directory, a file named result,
\* a test file.
TreePaths ==
    { <<"b">>, <<"d", "/", "a">>, <<"d", "/", "b">>, <<"e", "/", "a">>,
      <<"d", "/", "e", "/", "a">>, <<"d", "/">> \o KeyResult,
      <<"d", "/", "a", ".", "t", "e", "s", "t", ".", "s">> }

\* a path of no node
AbsentPath == <<"z">>

\* ScanResult[] with distinct paths
TreeInputs ==
    UNION {{rs \in [1..n -> [path : TreePaths, tokens : 0..MaxTreeTokens]] :
               \A i, j \in 1..n : i # j => rs[i].path # rs[j].path}
           : n \in 0..MaxTreeFiles}

NoCall == [fn |-> "none", path |-> <<>>]

\* every node of a forest
RECURSIVE Nodes(_)
Nodes(forest) ==
    UNION {{forest[i]} \cup Nodes(forest[i].children) : i \in DOMAIN forest}

\* the targetPath arguments: the path of any node, or a path of none
TreeTargets == {n.path : n \in Nodes(treeNodes)} \cup {AbsentPath}

\* one call: the forest after it and what it returned
Called(fn, path, after, returned) ==
    /\ treeCall' = [fn |-> fn, path |-> path]
    /\ treeBefore' = treeNodes
    /\ treeNodes' = after
    /\ treeReturn' = returned
    /\ UNCHANGED <<treeFiles, treePc>>
    /\ UNCHANGED treeRest

TreeBuild ==
    /\ treePc = "new"
    /\ treePc' = "built"
    /\ treeCall' = [fn |-> "buildFileTree", path |-> <<>>]
    /\ treeBefore' = treeNodes
    /\ treeNodes' = buildFileTree(treeFiles)
    /\ treeReturn' = Undefined
    /\ UNCHANGED treeFiles
    /\ UNCHANGED treeRest

TreeToggleSelection ==
    /\ treePc = "built"
    /\ \E p \in TreeTargets :
          Called("toggleSelection", p, toggleSelection(treeNodes, p), Undefined)

TreeSelectAll ==
    /\ treePc = "built"
    /\ Called("selectAll", <<>>, selectAll(treeNodes), Undefined)

TreeDeselectAll ==
    /\ treePc = "built"
    /\ Called("deselectAll", <<>>, deselectAll(treeNodes), Undefined)

TreeInvertSelection ==
    /\ treePc = "built"
    /\ Called("invertSelection", <<>>, invertSelection(treeNodes), Undefined)

TreeToggleExpand ==
    /\ treePc = "built"
    /\ \E p \in TreeTargets :
          Called("toggleExpand", p, toggleExpand(treeNodes, p), Undefined)

TreeExpandAll ==
    /\ treePc = "built"
    /\ Called("expandAll", <<>>, expandAll(treeNodes), Undefined)

TreeCollapseAll ==
    /\ treePc = "built"
    /\ Called("collapseAll", <<>>, collapseAll(treeNodes), Undefined)

TreeToggleCurrentDir ==
    /\ treePc = "built"
    /\ \E p \in TreeTargets :
          Called("toggleCurrentDirSelection", p,
                 toggleCurrentDirSelection(treeNodes, p), Undefined)

TreeToggleTestFiles ==
    /\ treePc = "built"
    /\ Called("toggleTestFiles", <<>>, toggleTestFiles(treeNodes), Undefined)

TreeIsNodeSelected ==
    /\ treePc = "built"
    /\ \E p \in TreeTargets :
          Called("isNodeSelected", p, treeNodes, isNodeSelected(treeNodes, p))

TreeGetSelectedStats ==
    /\ treePc = "built"
    /\ Called("getSelectedStats", <<>>, treeNodes, getSelectedStats(treeNodes))

TreeFlatten ==
    /\ treePc = "built"
    /\ Called("flattenTree", <<>>, treeNodes, flattenTree(treeNodes, 0))

-----------------------------------------------------------------------------
(* tui/App.tsx: the App component *)

MaxFilterLen == 1
MaxPreviewOffset == 5

\* What the scan may resolve to: no file, one file, a file and a directory
\* with a file (in both scan orders).
TuiScans ==
    { <<>>,
      <<[path |-> <<"b">>, tokens |-> 1]>>,
      <<[path |-> <<"d", "/", "a">>, tokens |-> 1], [path |-> <<"b">>, tokens |-> 2]>>,
      <<[path |-> <<"b">>, tokens |-> 2], [path |-> <<"d", "/", "a">>, tokens |-> 1]>> }

\* The characters typed into the search box.
FilterChars == {"a", "A"}

\* lines 267-273
flatList ==
    LET flat == flattenTree(tree, 0)
    IN IF filter = <<>> THEN flat
       ELSE SelectSeq(flat, LAMBDA item :
                includes(toLowerCase(item.node.path), toLowerCase(filter)))

\* flatList[cursor]: a JavaScript index, undefined outside the array
HasItem == cursor >= 0 /\ cursor < Len(flatList)
Item == flatList[cursor + 1]

Min(a, b) == IF a < b THEN a ELSE b
Max(a, b) == IF a > b THEN a ELSE b

\* lines 276-278: the effect on [cursor] resets the preview offset
CursorTo(c) ==
    /\ cursor' = c
    /\ previewOffset' = IF c # cursor THEN 0 ELSE previewOffset

Running == appPc = "running"
Browsing == Running /\ ~isSearching

\* lines 258-264: the scan promise resolves
ScanDone ==
    /\ Running
    /\ loading
    /\ \E rs \in TuiScans :
          /\ scanned' = rs
          /\ tree' = buildFileTree(rs)
    /\ loading' = FALSE
    /\ UNCHANGED <<cursor, filter, isSearching, lastKey, previewOffset, appPc, handed>>
    /\ UNCHANGED held
    /\ pressed' = ""
    /\ UNCHANGED <<promise, clipboard>>
    /\ UNCHANGED tuiRest

\* lines 308-313: Escape or Return in search mode
SearchClose ==
    /\ Running
    /\ isSearching
    /\ isSearching' = FALSE
    /\ UNCHANGED <<scanned, tree, cursor, filter, lastKey, previewOffset, loading,
                   appPc, handed>>
    /\ UNCHANGED held
    /\ \E input \in {"escape", "return"} : pressed' = input
    /\ UNCHANGED <<promise, clipboard>>
    /\ UNCHANGED tuiRest

\* lines 465-470: the TextInput of the search box, a character typed
SearchType ==
    /\ Running
    /\ isSearching
    /\ ~loading
    /\ Len(filter) < MaxFilterLen
    /\ \E c \in FilterChars :
          /\ filter' = Append(filter, c)
          /\ pressed' = c
    /\ UNCHANGED <<scanned, tree, cursor, isSearching, lastKey, previewOffset, loading,
                   appPc, handed>>
    /\ UNCHANGED held
    /\ UNCHANGED <<promise, clipboard>>
    /\ UNCHANGED tuiRest

\* lines 465-470: the TextInput of the search box, a character deleted
SearchErase ==
    /\ Running
    /\ isSearching
    /\ ~loading
    /\ filter # <<>>
    /\ filter' = SubSeq(filter, 1, Len(filter) - 1)
    /\ UNCHANGED <<scanned, tree, cursor, isSearching, lastKey, previewOffset, loading,
                   appPc, handed>>
    /\ UNCHANGED held
    /\ pressed' = "backspace"
    /\ UNCHANGED <<promise, clipboard>>
    /\ UNCHANGED tuiRest

\* lines 315-318: `/`
SearchOpen ==
    /\ Browsing
    /\ isSearching' = TRUE
    /\ UNCHANGED <<scanned, tree, cursor, filter, lastKey, previewOffset, loading,
                   appPc, handed>>
    /\ UNCHANGED held
    /\ pressed' = "/"
    /\ UNCHANGED <<promise, clipboard>>
    /\ UNCHANGED tuiRest

\* lines 320-323: `q` or Escape
Quit ==
    /\ Browsing
    /\ appPc' = "exited"
    /\ UNCHANGED <<scanned, tree, cursor, filter, isSearching, lastKey, previewOffset,
                   loading, handed>>
    /\ UNCHANGED held
    /\ \E input \in {"q", "escape"} : pressed' = input
    /\ UNCHANGED <<promise, clipboard>>
    /\ UNCHANGED tuiRest

\* lines 326-329: `k` or the up arrow
CursorUp ==
    /\ Browsing
    /\ CursorTo(Max(0, cursor - 1))
    /\ UNCHANGED <<scanned, tree, filter, isSearching, lastKey, loading, appPc, handed>>
    /\ UNCHANGED held
    /\ \E input \in {"k", "up"} : pressed' = input
    /\ UNCHANGED <<promise, clipboard>>
    /\ UNCHANGED tuiRest

\* lines 331-334: `j` or the down arrow
CursorDown ==
    /\ Browsing
    /\ CursorTo(Min(Len(flatList) - 1, cursor + 1))
    /\ UNCHANGED <<scanned, tree, filter, isSearching, lastKey, loading, appPc, handed>>
    /\ UNCHANGED held
    /\ \E input \in {"j", "down"} : pressed' = input
    /\ UNCHANGED <<promise, clipboard>>
    /\ UNCHANGED tuiRest

\* lines 337-340: `J`
PreviewDown ==
    /\ Browsing
    /\ previewOffset + 5 <= MaxPreviewOffset
    /\ previewOffset' = previewOffset + 5
    /\ UNCHANGED <<scanned, tree, cursor, filter, isSearching, lastKey, loading,
                   appPc, handed>>
    /\ UNCHANGED held
    /\ pressed' = "J"
    /\ UNCHANGED <<promise, clipboard>>
    /\ UNCHANGED tuiRest

\* lines 341-344: `K`
PreviewUp ==
    /\ Browsing
    /\ previewOffset' = Max(0, previewOffset - 5)
    /\ UNCHANGED <<scanned, tree, cursor, filter, isSearching, lastKey, loading,
                   appPc, handed>>
    /\ UNCHANGED held
    /\ pressed' = "K"
    /\ UNCHANGED <<promise, clipboard>>
    /\ UNCHANGED tuiRest

\* lines 347-350: Ctrl+d
HalfPageDown ==
    /\ Browsing
    /\ CursorTo(Min(Len(flatList) - 1, cursor + 10))
    /\ UNCHANGED <<scanned, tree, filter, isSearching, lastKey, loading, appPc, handed>>
    /\ UNCHANGED held
    /\ pressed' = "ctrl+d"
    /\ UNCHANGED <<promise, clipboard>>
    /\ UNCHANGED tuiRest

\* lines 351-354: Ctrl+u
HalfPageUp ==
    /\ Browsing
    /\ CursorTo(Max(0, cursor - 10))
    /\ UNCHANGED <<scanned, tree, filter, isSearching, lastKey, loading, appPc, handed>>
    /\ UNCHANGED held
    /\ pressed' = "ctrl+u"
    /\ UNCHANGED <<promise, clipboard>>
    /\ UNCHANGED tuiRest

\* lines 357-361: `g`
KeyG ==
    /\ Browsing
    /\ IF lastKey = <<"g">>
       THEN CursorTo(0) /\ UNCHANGED lastKey
       ELSE lastKey' = <<"g">> /\ UNCHANGED <<cursor, previewOffset>>
    /\ UNCHANGED <<scanned, tree, filter, isSearching, loading, appPc, handed>>
    /\ UNCHANGED held
    /\ pressed' = "g"
    /\ UNCHANGED <<promise, clipboard>>
    /\ UNCHANGED tuiRest

\* lines 362-365: `G`
KeyBigG ==
    /\ Browsing
    /\ CursorTo(Len(flatList) - 1)
    /\ UNCHANGED <<scanned, tree, filter, isSearching, lastKey, loading, appPc, handed>>
    /\ UNCHANGED held
    /\ pressed' = "G"
    /\ UNCHANGED <<promise, clipboard>>
    /\ UNCHANGED tuiRest

\* Mutant: the updater works on prev itself.
cloneObject_alias(obj) == obj

\* cloneTree as an object: JSON.parse builds new objects only, so the clone
\* is another object than the one it was made from.
cloneObject(obj) == [id |-> obj.id + 1, nodes |-> cloneTree(obj.nodes)]

\* the tree-utils calls of the updaters, which write into their argument
update(fn, nodes, path) ==
    CASE fn = "toggleSelection" -> toggleSelection(nodes, path)
      [] fn = "toggleExpand" -> toggleExpand(nodes, path)
      [] fn = "expand" -> findAndApply(nodes, path, "expand").nodes
      [] fn = "selectAll" -> selectAll(nodes)
      [] fn = "deselectAll" -> deselectAll(nodes)

\* setTree(prev => { const clone = cloneTree(prev); fn(clone); return clone; }):
\* the returned object becomes the tree; held is the object prev, with what
\* it held when it was handed out and what it holds once the updater has run.
setTree(fn, path) ==
    LET prev == [id |-> 0, nodes |-> tree]
        clone == cloneObject(prev)
        written == [clone EXCEPT !.nodes = update(fn, clone.nodes, path)]
    IN /\ tree' = written.nodes
       /\ held' = [was |-> prev.nodes,
                   now |-> IF written.id = prev.id THEN written.nodes ELSE prev.nodes]

\* lines 368-377: `x` or Space
KeyToggle ==
    /\ Browsing
    /\ IF HasItem
       THEN setTree("toggleSelection", Item.node.path)
       ELSE UNCHANGED <<tree, held>>
    /\ UNCHANGED <<scanned, cursor, filter, isSearching, lastKey, previewOffset,
                   loading, appPc, handed>>
    /\ \E input \in {"x", " "} : pressed' = input
    /\ UNCHANGED <<promise, clipboard>>
    /\ UNCHANGED tuiRest

\* lines 380-392: `o` or Return
KeyOpen ==
    /\ Browsing
    /\ IF HasItem /\ Item.node.isDir
       THEN setTree("toggleExpand", Item.node.path)
       ELSE UNCHANGED <<tree, held>>
    /\ UNCHANGED <<scanned, cursor, filter, isSearching, lastKey, previewOffset,
                   loading, appPc, handed>>
    /\ \E input \in {"o", "return"} : pressed' = input
    /\ UNCHANGED <<promise, clipboard>>
    /\ UNCHANGED tuiRest

\* lines 380-392: `l`
KeyL ==
    /\ Browsing
    /\ IF HasItem /\ Item.node.isDir /\ ~Item.node.expanded
       THEN setTree("expand", Item.node.path)
       ELSE UNCHANGED <<tree, held>>
    /\ UNCHANGED <<scanned, cursor, filter, isSearching, lastKey, previewOffset,
                   loading, appPc, handed>>
    /\ pressed' = "l"
    /\ UNCHANGED <<promise, clipboard>>
    /\ UNCHANGED tuiRest

\* lines 393-403: `h`
KeyH ==
    /\ Browsing
    /\ IF HasItem /\ Item.node.isDir /\ Item.node.expanded
       THEN setTree("toggleExpand", Item.node.path)
       ELSE UNCHANGED <<tree, held>>
    /\ UNCHANGED <<scanned, cursor, filter, isSearching, lastKey, previewOffset,
                   loading, appPc, handed>>
    /\ pressed' = "h"
    /\ UNCHANGED <<promise, clipboard>>
    /\ UNCHANGED tuiRest

\* lines 406-413: `a`
KeySelectAll ==
    /\ Browsing
    /\ setTree("selectAll", <<>>)
    /\ UNCHANGED <<scanned, cursor, filter, isSearching, lastKey, previewOffset,
                   loading, appPc, handed>>
    /\ pressed' = "a"
    /\ UNCHANGED <<promise, clipboard>>
    /\ UNCHANGED tuiRest

\* lines 414-421: `u` or `n`
KeyDeselectAll ==
    /\ Browsing
    /\ setTree("deselectAll", <<>>)
    /\ UNCHANGED <<scanned, cursor, filter, isSearching, lastKey, previewOffset,
                   loading, appPc, handed>>
    /\ \E input \in {"u", "n"} : pressed' = input
    /\ UNCHANGED <<promise, clipboard>>
    /\ UNCHANGED tuiRest

\* lines 575-581: the onComplete that launchTUI hands to the App
onComplete(copyToClipboard) ==
    IF copyToClipboard
    THEN clipboard' = "writing" /\ UNCHANGED promise
    ELSE promise' = "resolved" /\ UNCHANGED clipboard

\* line 425: results.filter(r => isNodeSelected(tree, r.path))
selectedResults == SelectSeq(scanned, LAMBDA r : isNodeSelected(tree, r.path))

\* lines 424-430: `c`, or `Z` when the last key was `Z`: hand the selected
\* results to format(), complete and exit
Confirm ==
    /\ Browsing
    /\ \E input \in {"c", "Z"} :
          /\ input = "Z" => lastKey = <<"Z">>
          /\ pressed' = input
    /\ handed' = [confirmed |-> TRUE, files |-> selectedResults]
    /\ \E copyToClipboard \in BOOLEAN : onComplete(copyToClipboard)
    /\ appPc' = "exited"
    /\ UNCHANGED <<scanned, tree, cursor, filter, isSearching, lastKey, previewOffset,
                   loading>>
    /\ UNCHANGED held
    /\ UNCHANGED tuiRest

\* lines 577-580: clipboard.write resolves, and onComplete goes on
ClipboardWritten ==
    /\ clipboard = "writing"
    /\ clipboard' = "written"
    /\ promise' = "resolved"
    /\ UNCHANGED <<scanned, tree, cursor, filter, isSearching, lastKey, previewOffset,
                   loading, appPc, handed, held, pressed>>
    /\ UNCHANGED tuiRest

\* line 577: clipboard.write rejects (no clipboard program on the machine):
\* onComplete ends there, and nothing handles the rejection
ClipboardFailed ==
    /\ clipboard = "writing"
    /\ clipboard' = "failed"
    /\ UNCHANGED <<scanned, tree, cursor, filter, isSearching, lastKey, previewOffset,
                   loading, appPc, handed, held, pressed, promise>>
    /\ UNCHANGED tuiRest

\* lines 431-434: `Z` when the last key was not `Z`
KeyZ ==
    /\ Browsing
    /\ lastKey # <<"Z">>
    /\ lastKey' = <<"Z">>
    /\ UNCHANGED <<scanned, tree, cursor, filter, isSearching, previewOffset, loading,
                   appPc, handed>>
    /\ UNCHANGED held
    /\ pressed' = "Z"
    /\ UNCHANGED <<promise, clipboard>>
    /\ UNCHANGED tuiRest

\* keys of the documented table that no branch of useInput names, and `s`
OtherKeys == {"i", "e", "E", "*", "t", "s"}

\* line 436: any key no branch handles
KeyOther ==
    /\ Browsing
    /\ lastKey' = <<>>
    /\ UNCHANGED <<scanned, tree, cursor, filter, isSearching, previewOffset, loading,
                   appPc, handed>>
    /\ UNCHANGED held
    /\ \E input \in OtherKeys : pressed' = input
    /\ UNCHANGED <<promise, clipboard>>
    /\ UNCHANGED tuiRest

-----------------------------------------------------------------------------
(* formatter.ts *)

\* A string is a tuple of characters; the fixed text of a template or of a
\* literal is one element of the tuple.

MaxFmtFiles == 1
MaxContentLen == 3

\* the characters of a file's content: the three reserved characters of XML,
\* the line break, the comment starters and the blank
FmtChars == {"&", "<", ">", "\n", "#", "/", " "}

FmtContents == UNION {[1..n -> FmtChars] : n \in 0..MaxContentLen}

FmtPaths == {<<"b">>, <<"d", "/", "a">>}

FmtLanguages == {<<"typescript">>, <<"python">>, <<"text">>}

FormatInputs ==
    UNION {[1..n -> [path : FmtPaths, language : FmtLanguages, content : FmtContents]]
           : n \in 0..MaxFmtFiles}

\* options.symbols: absent, or a Map from path to CodeSymbol[]
SymbolMaps ==
    { Undefined,
      [t |-> "map",
       m |-> [p \in FmtPaths |->
                IF p = <<"b">>
                THEN <<[kind |-> <<"function">>, name |-> <<"f">>,
                        signature |-> <<"f", "<", "&", ">">>]>>
                ELSE <<>>]] }

\* FormatOptions, lines 201-207; an optional boolean is "true", "false" or
\* "absent".  The command line hands its --format string over with a cast
\* (cli/index.ts, line 173), so format is any string: "json" stands for the
\* strings that are neither of the two formats.
FormatOptionsSet ==
    [format : {"markdown", "xml", "json"},
     includeTree : {"true", "false", "absent"},
     signaturesOnly : {"true", "false", "absent"},
     symbols : SymbolMaps,
     compact : {"true", "false", "absent"}]

NoFormatOptions ==
    [format |-> "markdown", includeTree |-> "absent", signaturesOnly |-> "absent",
     symbols |-> Undefined, compact |-> "absent"]

\* an optional boolean read with a default, and read for its truthiness
withDefault(v, d) == IF v = "absent" THEN d ELSE v = "true"
isSet(v) == v = "true"

\* ---- strings

\* Array.prototype.join
RECURSIVE join(_, _)
join(strings, sep) ==
    IF strings = <<>> THEN <<>>
    ELSE IF Len(strings) = 1 THEN strings[1]
    ELSE strings[1] \o sep \o join(Tail(strings), sep)

IsWhitespace(c) == c \in {" ", "\n"}

\* String.prototype.trim
RECURSIVE trim(_)
trim(s) ==
    IF s = <<>> THEN <<>>
    ELSE IF IsWhitespace(s[1]) THEN trim(Tail(s))
    ELSE IF IsWhitespace(s[Len(s)]) THEN trim(SubSeq(s, 1, Len(s) - 1))
    ELSE s

\* String.prototype.startsWith
startsWith(s, p) == Len(s) >= Len(p) /\ SubSeq(s, 1, Len(p)) = p

\* String.prototype.replace with a global pattern of one character
RECURSIVE replaceAll(_, _, _)
replaceAll(s, c, by) ==
    IF s = <<>> THEN <<>>
    ELSE (IF s[1] = c THEN by ELSE <<s[1]>>) \o replaceAll(Tail(s), c, by)

Amp == <<"&", "a", "m", "p", ";">>
Lt == <<"&", "l", "t", ";">>
Gt == <<"&", "g", "t", ";">>

\* ---- buildTree, lines 212-255

Null == [t |-> "null"]

\* lines 216-229: the loop over the parts of one path
RECURSIVE insertPath(_, _)
insertPath(current, parts) ==
    IF Len(parts) = 1 THEN put(current, parts[1], Null)
    ELSE LET found == get(current, parts[1])
             next == IF ~truthy(found) THEN Obj(<<>>) ELSE found
         IN put(current, parts[1], insertPath(next, Tail(parts)))

RECURSIVE buildTreeObject(_)
buildTreeObject(paths) ==
    IF paths = <<>> THEN Obj(<<>>)
    ELSE insertPath(buildTreeObject(SubSeq(paths, 1, Len(paths) - 1)),
                    split(paths[Len(paths)], "/"))

\* lines 233-238: the comparator of render
compareEntries(a, b) ==
    LET aIsDir == a.v # Null
        bIsDir == b.v # Null
    IN IF aIsDir # bIsDir THEN (IF aIsDir THEN -1 ELSE 1)
       ELSE localeCompare(a.k, b.k)

RECURSIVE insertEntry(_, _)
insertEntry(sorted, x) ==
    IF sorted = <<>> THEN <<x>>
    ELSE IF compareEntries(Head(sorted), x) <= 0
         THEN <<Head(sorted)>> \o insertEntry(Tail(sorted), x)
         ELSE <<x>> \o sorted

RECURSIVE sortEntries(_)
sortEntries(entries) ==
    IF entries = <<>> THEN <<>>
    ELSE insertEntry(sortEntries(SubSeq(entries, 1, Len(entries) - 1)),
                     entries[Len(entries)])

\* lines 232-252
RECURSIVE render(_, _)
RECURSIVE renderEntries(_, _)
renderEntries(entries, prefix) ==
    IF entries = <<>> THEN <<>>
    ELSE LET name == Head(entries).k
             children == Head(entries).v
         IN (IF children = Null
             THEN <<prefix \o <<"- ">> \o name>>
             ELSE <<prefix \o <<"- ">> \o name \o <<"/">>>>
                  \o render(children, prefix \o <<"  ">>))
            \o renderEntries(Tail(entries), prefix)

render(node, prefix) == renderEntries(sortEntries(node.e), prefix)

buildTree(paths) == join(render(buildTreeObject(paths), <<>>), <<"\n">>)

\* ---- compactContent, lines 260-290

CLike ==
    {<<"typescript">>, <<"javascript">>, <<"tsx">>, <<"jsx">>, <<"c">>, <<"cpp">>,
     <<"java">>, <<"rust">>, <<"go">>}

\* one turn of the loop: acc is [result, prevEmpty]
compactLine(acc, line, language) ==
    LET trimmed == trim(line)
    IN IF trimmed = <<>>
       THEN [result |-> IF ~acc.prevEmpty THEN Append(acc.result, <<>>) ELSE acc.result,
             prevEmpty |-> TRUE]
       ELSE IF /\ language \in CLike
               /\ startsWith(trimmed, <<"/", "/">>)
               /\ ~startsWith(trimmed, <<"/", "/", "/">>)
       THEN [result |-> acc.result, prevEmpty |-> FALSE]
       ELSE IF /\ language = <<"python">>
               /\ startsWith(trimmed, <<"#">>)
               /\ ~startsWith(trimmed, <<"#", "!">>)
       THEN [result |-> acc.result, prevEmpty |-> FALSE]
       ELSE [result |-> Append(acc.result, line), prevEmpty |-> FALSE]

RECURSIVE compactLines(_, _)
compactLines(lines, language) ==
    IF lines = <<>> THEN [result |-> <<>>, prevEmpty |-> FALSE]
    ELSE compactLine(compactLines(SubSeq(lines, 1, Len(lines) - 1), language),
                     lines[Len(lines)], language)

compactContent(content, language) ==
    join(compactLines(split(content, "\n"), language).result, <<"\n">>)

\* ---- getFileContent, lines 295-314

signatureText(fileSymbols) ==
    join([i \in DOMAIN fileSymbols |->
             <<"// ">> \o fileSymbols[i].kind \o <<": ">> \o fileSymbols[i].name
                 \o <<"\n">> \o fileSymbols[i].signature],
         <<"\n", "\n">>)

getFileContent(result, options) ==
    IF /\ isSet(options.signaturesOnly)
       /\ options.symbols # Undefined
       /\ result.path \in DOMAIN options.symbols.m
       /\ Len(options.symbols.m[result.path]) > 0
    THEN signatureText(options.symbols.m[result.path])
    ELSE IF isSet(options.compact)
         THEN compactContent(result.content, result.language)
         ELSE result.content

\* ---- formatMarkdown, lines 319-345

pathsOf(rs) == [i \in DOMAIN rs |-> rs[i].path]

fileTag(indent, result) ==
    indent \o <<"<file path=\"">> \o result.path \o <<"\" language=\"">>
        \o result.language \o <<"\">">>

\* lines 320-334: the lines before the loop
markdownHead(rs, options) ==
    <<<<"# Project Context">>, <<>>>>
    \o (IF withDefault(options.signaturesOnly, FALSE)
        THEN <<<<"> **Note**: Signatures only mode - implementations omitted">>, <<>>>>
        ELSE <<>>)
    \o (IF withDefault(options.includeTree, TRUE) /\ Len(rs) > 0
        THEN <<<<"## Structure">>, buildTree(pathsOf(rs)), <<>>, <<"---">>, <<>>>>
        ELSE <<>>)

\* lines 336-342: one turn of the loop
markdownFile(result, options) ==
    <<fileTag(<<>>, result), getFileContent(result, options), <<"</file>">>, <<>>>>

\* ---- formatXml, lines 350-384

\* Mutant: the ampersand is replaced last.
escapeXml_ampersandLast(content) ==
    replaceAll(replaceAll(replaceAll(content, "<", Lt), ">", Gt), "&", Amp)

\* lines 372-375
escapeXml(content) ==
    replaceAll(replaceAll(replaceAll(content, "&", Amp), "<", Lt), ">", Gt)

\* lines 351-367: the lines before the loop
xmlHead(rs, options) ==
    <<<<"<?xml version=\"1.0\" encoding=\"UTF-8\"?>">>, <<"<context>">>>>
    \o (IF withDefault(options.signaturesOnly, FALSE)
        THEN <<<<"  <note>Signatures only mode - implementations omitted</note>">>>>
        ELSE <<>>)
    \o (IF withDefault(options.includeTree, TRUE) /\ Len(rs) > 0
        THEN LET treeLines == split(buildTree(pathsOf(rs)), "\n")
             IN <<<<"  <structure>">>>>
                \o [i \in DOMAIN treeLines |-> <<"    ">> \o treeLines[i]]
                \o <<<<"  </structure>">>>>
        ELSE <<>>)
    \o <<<<"  <files>">>>>

\* lines 369-378: one turn of the loop
xmlFile(result, options) ==
    <<fileTag(<<"    ">>, result), escapeXml(getFileContent(result, options)),
      <<"    </file>">>>>

\* lines 380-381: the lines after the loop
xmlTail == <<<<"  </files>">>, <<"</context>">>>>

\* ---- format, lines 389-397: one action per step of the function it calls

FormatXmlBegin ==
    /\ fmtPc = "call"
    /\ fmtOptions.format = "xml"
    /\ fmtLines' = xmlHead(fmtResults, fmtOptions)
    /\ fmtPc' = "files"
    /\ UNCHANGED <<fmtResults, fmtOptions, fmtPos, fmtOutput>>
    /\ UNCHANGED fmtRest

FormatXmlFile ==
    /\ fmtPc = "files"
    /\ fmtOptions.format = "xml"
    /\ fmtPos <= Len(fmtResults)
    /\ fmtLines' = fmtLines \o xmlFile(fmtResults[fmtPos], fmtOptions)
    /\ fmtPos' = fmtPos + 1
    /\ UNCHANGED <<fmtResults, fmtOptions, fmtPc, fmtOutput>>
    /\ UNCHANGED fmtRest

FormatXmlReturn ==
    /\ fmtPc = "files"
    /\ fmtOptions.format = "xml"
    /\ fmtPos > Len(fmtResults)
    /\ fmtLines' = fmtLines \o xmlTail
    /\ fmtOutput' = join(fmtLines', <<"\n">>)
    /\ fmtPc' = "done"
    /\ UNCHANGED <<fmtResults, fmtOptions, fmtPos>>
    /\ UNCHANGED fmtRest

FormatMarkdownBegin ==
    /\ fmtPc = "call"
    /\ fmtOptions.format # "xml"
    /\ fmtLines' = markdownHead(fmtResults, fmtOptions)
    /\ fmtPc' = "files"
    /\ UNCHANGED <<fmtResults, fmtOptions, fmtPos, fmtOutput>>
    /\ UNCHANGED fmtRest

FormatMarkdownFile ==
    /\ fmtPc = "files"
    /\ fmtOptions.format # "xml"
    /\ fmtPos <= Len(fmtResults)
    /\ fmtLines' = fmtLines \o markdownFile(fmtResults[fmtPos], fmtOptions)
    /\ fmtPos' = fmtPos + 1
    /\ UNCHANGED <<fmtResults, fmtOptions, fmtPc, fmtOutput>>
    /\ UNCHANGED fmtRest

FormatMarkdownReturn ==
    /\ fmtPc = "files"
    /\ fmtOptions.format # "xml"
    /\ fmtPos > Len(fmtResults)
    /\ fmtOutput' = join(fmtLines, <<"\n">>)
    /\ fmtPc' = "done"
    /\ UNCHANGED <<fmtResults, fmtOptions, fmtPos, fmtLines>>
    /\ UNCHANGED fmtRest

-----------------------------------------------------------------------------
(* tokenizer.ts *)

MaxIntDigits == 2
MaxFracDigits == 2
MaxTextLen == 3

\* ---- natural numbers of any size: the digits in base Base, lowest first,
\* no highest digit 0.  The 53-bit significand of a double does not fit the
\* model checker's integers.

RECURSIVE Pow2(_)
Pow2(n) == IF n = 0 THEN 1 ELSE 2 * Pow2(n - 1)

Base == Pow2(15)

RECURSIVE bnFromInt(_)
bnFromInt(n) == IF n = 0 THEN <<>> ELSE <<n % Base>> \o bnFromInt(n \div Base)

RECURSIVE bnToInt(_)
bnToInt(a) == IF a = <<>> THEN 0 ELSE a[1] + Base * bnToInt(Tail(a))

\* a * k + carry, for small k and carry
RECURSIVE bnMulSmall(_, _, _)
bnMulSmall(a, k, carry) ==
    IF a = <<>> THEN bnFromInt(carry)
    ELSE LET v == a[1] * k + carry
         IN IF Len(a) = 1 /\ v = 0 THEN <<>>
            ELSE <<v % Base>> \o bnMulSmall(Tail(a), k, v \div Base)

RECURSIVE bnStrip(_)
bnStrip(a) ==
    IF a # <<>> /\ a[Len(a)] = 0 THEN bnStrip(SubSeq(a, 1, Len(a) - 1)) ELSE a

\* quotient and remainder of a by a small k
RECURSIVE bnDivRaw(_, _)
bnDivRaw(a, k) ==
    IF a = <<>> THEN [q |-> <<>>, r |-> 0]
    ELSE LET high == bnDivRaw(Tail(a), k)
             v == high.r * Base + a[1]
         IN [q |-> <<v \div k>> \o high.q, r |-> v % k]

bnDivSmall(a, k) ==
    LET raw == bnDivRaw(a, k) IN [q |-> bnStrip(raw.q), r |-> raw.r]

RECURSIVE bnLess(_, _)
bnLess(a, b) ==
    IF Len(a) # Len(b) THEN Len(a) < Len(b)
    ELSE IF a = <<>> THEN FALSE
    ELSE IF a[Len(a)] # b[Len(b)] THEN a[Len(a)] < b[Len(b)]
    ELSE bnLess(SubSeq(a, 1, Len(a) - 1), SubSeq(b, 1, Len(b) - 1))

bnIsOdd(a) == a # <<>> /\ a[1] % 2 = 1

\* 2^n: one more digit 0 for every 15 bits
RECURSIVE bnPow2(_)
bnPow2(n) == IF n >= 15 THEN <<0>> \o bnPow2(n - 15) ELSE <<Pow2(n)>>

RECURSIVE Pow10(_)
Pow10(n) == IF n = 0 THEN 1 ELSE 10 * Pow10(n - 1)

\* ---- IEEE 754 binary64, the Number of JavaScript: the double
\* [q, e] is q * 2^e, with 2^52 <= q < 2^53 unless it is 0.

Two52 == bnPow2(52)
Two53 == bnPow2(53)

\* round to nearest, ties to even: quotient q with remainder r of a division
\* by den
roundHalfEven(q, r, den, e) ==
    LET up == 2 * r > den \/ (2 * r = den /\ bnIsOdd(q))
        rounded == IF up THEN bnMulSmall(q, 1, 1) ELSE q
    IN IF rounded = Two53 THEN [q |-> Two52, e |-> e + 1]
       ELSE [q |-> rounded, e |-> e]

\* the double nearest to n * 2^e / den (n of any size and not 0, den small,
\* n / den < 2^53): n is scaled up, 15 bits at a time and then bit by bit,
\* until the quotient has 53 bits
RECURSIVE scaleUp(_, _, _)
scaleUp(n, den, e) ==
    LET d == bnDivSmall(n, den)
    IN IF bnLess(bnDivSmall(<<0>> \o n, den).q, Two53)
       THEN scaleUp(<<0>> \o n, den, e - 15)
       ELSE IF bnLess(d.q, Two52)
       THEN scaleUp(bnMulSmall(n, 2, 0), den, e - 1)
       ELSE roundHalfEven(d.q, d.r, den, e)

toDouble(n, den, e) ==
    IF n = <<>> THEN [q |-> <<>>, e |-> 0] ELSE scaleUp(n, den, e)

\* the bits to drop from p so that it is below 2^53 (p < 2^63)
RECURSIVE excessBits(_, _)
excessBits(p, s) ==
    IF bnLess(bnDivSmall(p, Pow2(s)).q, Two53) THEN s ELSE excessBits(p, s + 1)

\* x * k for a double x and a small integer k: the exact product, rounded
timesSmall(x, k) ==
    IF x.q = <<>> THEN x
    ELSE LET p == bnMulSmall(x.q, k, 0)
             s == excessBits(p, 0)
             d == bnDivSmall(p, Pow2(s))
         IN roundHalfEven(d.q, d.r, Pow2(s), x.e + s)

\* a \div 2^n: one digit less for every 15 bits
RECURSIVE bnShiftRight(_, _)
bnShiftRight(a, n) ==
    IF a = <<>> THEN <<>>
    ELSE IF n >= 15 THEN bnShiftRight(Tail(a), n - 15)
    ELSE bnDivSmall(a, Pow2(n)).q

\* Math.floor of a double that is not negative, as an integer
floorDouble(x) ==
    IF x.e >= 0 THEN bnToInt(bnMulSmall(x.q, Pow2(x.e), 0))
    ELSE bnToInt(bnShiftRight(x.q, 0 - x.e))

\* ---- lines 62-69: parseBudget

Str(s) == [t |-> "str", s |-> s]
Thrown(message) == [t |-> "error", message |-> message]

DigitOrder == <<"0", "1", "2", "3", "4", "5", "6", "7", "8", "9">>

\* \d
isDigit(c) == \E i \in DOMAIN DigitOrder : DigitOrder[i] = c

digitValue(c) == (CHOOSE i \in DOMAIN DigitOrder : DigitOrder[i] = c) - 1

\* \d+ from position i on, as many as there are: the position after them
RECURSIVE digitsEnd(_, _)
digitsEnd(s, i) ==
    IF i <= Len(s) /\ isDigit(s[i]) THEN digitsEnd(s, i + 1) ELSE i

\* line 63: s.match(/^(\d+(?:\.\d+)?)(k)?$/)
match(s) ==
    LET i1 == digitsEnd(s, 1)
        i2 == IF i1 <= Len(s) /\ s[i1] = "." /\ digitsEnd(s, i1 + 1) > i1 + 1
              THEN digitsEnd(s, i1 + 1)
              ELSE i1
    IN IF i1 = 1 THEN Null
       ELSE IF i2 = Len(s) + 1
            THEN [t |-> "match", g1 |-> SubSeq(s, 1, i2 - 1), g2 |-> Undefined]
       ELSE IF i2 = Len(s) /\ s[i2] = "k"
            THEN [t |-> "match", g1 |-> SubSeq(s, 1, i2 - 1), g2 |-> Str(<<"k">>)]
       ELSE Null

\* the number the digits of s write in base ten
RECURSIVE digitsNumber(_)
digitsNumber(s) ==
    IF s = <<>> THEN 0
    ELSE 10 * digitsNumber(SubSeq(s, 1, Len(s) - 1)) + digitValue(s[Len(s)])

\* the digits of a decimal numeral without its point, and how many of them
\* stand after the point
mantissa(s) == SelectSeq(s, isDigit)
fractionDigits(s) ==
    IF \E i \in DOMAIN s : s[i] = "."
    THEN Len(s) - (CHOOSE i \in DOMAIN s : s[i] = ".")
    ELSE 0

\* line 67: parseFloat of a numeral \d+(\.\d+)?: the double nearest to it
parseFloat(s) ==
    toDouble(bnFromInt(digitsNumber(mantissa(s))), Pow10(fractionDigits(s)), 0)

parseBudget(budget) ==
    LET m == match(toLowerCase(budget))
    IN IF m = Null
       THEN Thrown(<<"Invalid budget format: ">> \o budget)
       ELSE LET value == parseFloat(m.g1)
            IN IF m.g2 # Undefined
               THEN Num(floorDouble(timesSmall(value, 1000)))
               ELSE Num(floorDouble(value))

\* ---- lines 41-47: estimateTokens

\* the UTF-16 code unit of a character of the model
charCode(c) ==
    CASE c = "a" -> 97
      [] c = "k" -> 107
      [] c = "U+3042" -> 12354
      [] c = "U+3400" -> 13312
      [] c = "U+4E2D" -> 20013
      [] c = "U+9FFF" -> 40959
      [] c = "U+AC00" -> 44032
      [] OTHER -> 32

\* line 44: /[\u4e00-\u9fff\u3400-\u4dbf]/g
isCjk(c) ==
    \/ charCode(c) \in 19968..40959
    \/ charCode(c) \in 13312..19903

\* Math.ceil(a / 1.5 + b / 4) for small counts a and b.  The exact sum is
\* (8a + 3b) / 12: when it is a whole number a is a multiple of 3 and both
\* quotients are exact doubles; otherwise it is at least 1/12 away from
\* every whole number, far beyond the rounding of the two operations.
ceilDensity(a, b) == (8 * a + 3 * b + 11) \div 12

estimateTokens(content) ==
    LET cjkChars == Len(SelectSeq(content, isCjk))
        nonCjkChars == Len(content) - cjkChars
    IN ceilDensity(cjkChars, nonCjkChars)

\* ---- the callers of the tokenizer

BudgetDigits == {"0", "1", "2", "3"}
BudgetPrefixes == {<<>>, <<"-">>, <<"+">>, <<" ">>}
BudgetSuffixes ==
    {<<>>, <<"k">>, <<"K">>, <<"U+212A">>, <<"m">>, <<"k", "k">>, <<" ">>,
     <<"k", " ">>}

DigitStrings(max) == UNION {[1..n -> BudgetDigits] : n \in 0..max}

BudgetFractions ==
    {<<>>} \cup {<<".">> \o d : d \in DigitStrings(MaxFracDigits)}

BudgetStrings ==
    {p \o i \o f \o x :
        p \in BudgetPrefixes, i \in DigitStrings(MaxIntDigits),
        f \in BudgetFractions, x \in BudgetSuffixes}

TextChars == {"a", "U+4E2D", "U+3400", "U+AC00", "U+3042"}
Texts == UNION {[1..n -> TextChars] : n \in 0..MaxTextLen}

TokenizerInputs == BudgetStrings \cup Texts

ParseBudget ==
    /\ tokCall = "none"
    /\ tokCall' = "parseBudget"
    /\ tokReturn' = parseBudget(tokText)
    /\ UNCHANGED tokText
    /\ UNCHANGED tokRest

EstimateTokens ==
    /\ tokCall = "none"
    /\ tokCall' = "estimateTokens"
    /\ tokReturn' = Num(estimateTokens(tokText))
    /\ UNCHANGED tokText
    /\ UNCHANGED tokRest

-----------------------------------------------------------------------------
(* parser.ts and patterns.ts *)

MaxParseCalls == 2

\* A text is written as its tokens: a word (a longest run of \w characters)
\* is one element, every other character is an element of its own.
Words ==
    {"export", "default", "async", "function", "abstract", "class",
     "interface", "type", "const", "let", "var", "A", "I", "T", "f", "g", "m",
     "x"}

\* \w+, and [a-zA-Z_]\w*: no word of the model starts with a digit
isWord(s, p) == p \in DOMAIN s /\ s[p] \in Words

\* \s*: the position after the whitespace at p
RECURSIVE wsEnd(_, _)
wsEnd(s, p) == IF p \in DOMAIN s /\ IsWhitespace(s[p]) THEN wsEnd(s, p + 1) ELSE p

\* w\s+ at p: the position after it, or 0
wordWs(s, p, w) ==
    IF p \in DOMAIN s /\ s[p] = w /\ wsEnd(s, p + 1) > p + 1
    THEN wsEnd(s, p + 1)
    ELSE 0

\* (?:w\s+)? at p: the position after it
optWordWs(s, p, w) == IF wordWs(s, p, w) # 0 THEN wordWs(s, p, w) ELSE p

\* the match of a pattern that ends with (\w+) at p
captured(s, p) ==
    IF p # 0 /\ isWord(s, p) THEN [t |-> "match", g1 |-> s[p]] ELSE Null

\* patterns.ts line 18:
\* /^(?:export\s+(?:default\s+)?)?(?:async\s+)?function\s+(\w+)/
matchFunction(s) ==
    LET p1 == IF wordWs(s, 1, "export") # 0
              THEN optWordWs(s, wordWs(s, 1, "export"), "default")
              ELSE 1
        p2 == optWordWs(s, p1, "async")
    IN captured(s, wordWs(s, p2, "function"))

\* (?:\([^)]*\)|[a-zA-Z_]\w*) at p: the position after it, or 0
paramsEnd(s, p) ==
    IF p \in DOMAIN s /\ s[p] = "(" /\ \E q \in (p + 1)..Len(s) : s[q] = ")"
    THEN (CHOOSE q \in (p + 1)..Len(s) :
              s[q] = ")" /\ \A r \in (p + 1)..(q - 1) : s[r] # ")") + 1
    ELSE IF isWord(s, p) THEN p + 1
    ELSE 0

isArrow(s, p) == p + 1 \in DOMAIN s /\ s[p] = "=" /\ s[p + 1] = ">"

\* \s*(?::\s*[^=]+)?\s*=> at p
arrowTail(s, p) ==
    LET q == wsEnd(s, p)
    IN \/ isArrow(s, q)
       \/ /\ q \in DOMAIN s
          /\ s[q] = ":"
          /\ \E e \in (q + 2)..Len(s) :
                /\ \A r \in (q + 1)..(e - 1) : s[r] # "="
                /\ isArrow(s, e)

\* (?:async\s+)?(?:\([^)]*\)|[a-zA-Z_]\w*)\s*(?::\s*[^=]+)?\s*=> at p
arrowFunction(s, p) ==
    \E start \in {p, optWordWs(s, p, "async")} :
        paramsEnd(s, start) # 0 /\ arrowTail(s, paramsEnd(s, start))

\* patterns.ts line 23:
\* /^(?:export\s+)?(?:const|let|var)\s+(\w+)\s*=\s*(?:async\s+)?
\*  (?:\([^)]*\)|[a-zA-Z_]\w*)\s*(?::\s*[^=]+)?\s*=>/
matchArrow(s) ==
    LET p1 == optWordWs(s, 1, "export")
        p2 == IF wordWs(s, p1, "const") # 0 THEN wordWs(s, p1, "const")
              ELSE IF wordWs(s, p1, "let") # 0 THEN wordWs(s, p1, "let")
              ELSE wordWs(s, p1, "var")
        p3 == wsEnd(s, p2 + 1)
    IN IF /\ p2 # 0
          /\ isWord(s, p2)
          /\ p3 \in DOMAIN s
          /\ s[p3] = "="
          /\ arrowFunction(s, wsEnd(s, p3 + 1))
       THEN captured(s, p2)
       ELSE Null

\* patterns.ts line 28: /^(?:export\s+)?(?:abstract\s+)?class\s+(\w+)/
matchClass(s) ==
    captured(s, wordWs(s, optWordWs(s, optWordWs(s, 1, "export"), "abstract"),
                       "class"))

\* patterns.ts line 33: /^(?:export\s+)?interface\s+(\w+)/
matchInterface(s) ==
    captured(s, wordWs(s, optWordWs(s, 1, "export"), "interface"))

\* patterns.ts line 38: /^(?:export\s+)?type\s+(\w+)/
matchType(s) == captured(s, wordWs(s, optWordWs(s, 1, "export"), "type"))

JAVASCRIPT_PATTERNS ==
    << [regex |-> "function", kind |-> "function"],
       [regex |-> "arrow", kind |-> "function"],
       [regex |-> "class", kind |-> "class"],
       [regex |-> "interface", kind |-> "interface"],
       [regex |-> "type", kind |-> "type"] >>

\* line.match(regex)
matchPattern(regex, line) ==
    CASE regex = "function" -> matchFunction(line)
      [] regex = "arrow" -> matchArrow(line)
      [] regex = "class" -> matchClass(line)
      [] regex = "interface" -> matchInterface(line)
      [] regex = "type" -> matchType(line)

Supported == {"typescript", "javascript", "tsx", "jsx"}

\* patterns.ts lines 47-59
getPatternsForLanguage(language) ==
    IF language \in Supported THEN JAVASCRIPT_PATTERNS ELSE <<>>

CodeSymbol(name, kind, startLine, endLine, lines) ==
    [name |-> name, kind |-> kind, startLine |-> startLine,
     endLine |-> endLine,
     content |-> join(SubSeq(lines, startLine, endLine), <<"\n">>)]

count(line, c) == Len(SelectSeq(line, LAMBDA x : x = c))

\* lines 352-359: the loop over j, lines counted from 0 as in the code
RECURSIVE blockEnd(_, _, _, _, _)
blockEnd(lines, i, j, braceCount, started) ==
    IF j >= Len(lines) THEN i
    ELSE LET nowStarted == started \/ count(lines[j + 1], "{") > 0
             nowCount == braceCount + count(lines[j + 1], "{")
                                    - count(lines[j + 1], "}")
         IN IF nowStarted /\ nowCount = 0 THEN j
            ELSE IF ~nowStarted /\ includes(lines[j + 1], <<";">>) THEN j
            ELSE blockEnd(lines, i, j + 1, nowCount, nowStarted)

\* lines 340-376: the loop over i
RECURSIVE regexLoop(_, _, _, _)
regexLoop(lines, patterns, i, processedLines) ==
    IF i >= Len(lines) THEN <<>>
    ELSE LET line == trim(lines[i + 1])
             hits == {p \in DOMAIN patterns :
                         matchPattern(patterns[p].regex, line) # Null}
         IN IF \/ i \in processedLines
               \/ line = <<>>
               \/ startsWith(line, <<"/", "/">>)
               \/ hits = {}
            THEN regexLoop(lines, patterns, i + 1, processedLines)
            ELSE LET p == CHOOSE p \in hits : \A o \in hits : p <= o
                     endLine == blockEnd(lines, i, i, 0, FALSE)
                 IN <<CodeSymbol(matchPattern(patterns[p].regex, line).g1,
                                 patterns[p].kind, i + 1, endLine + 1, lines)>>
                    \o regexLoop(lines, patterns, i + 1,
                                 processedLines \cup (i..endLine))

parseWithRegex(content, language) ==
    IF getPatternsForLanguage(language) = <<>> THEN <<>>
    ELSE regexLoop(split(content, "\n"), getPatternsForLanguage(language), 0, {})

\* ---- the structural tier

SyntaxNode(type, name, startRow, endRow, children) ==
    [type |-> type, name |-> name, startRow |-> startRow, endRow |-> endRow,
     children |-> children]

\* node.parent of the root
NoParent == SyntaxNode("", "", 0, 0, <<>>)

Text(lines) == join(lines, <<"\n">>)

ClassWithMethod ==
    Text(<< <<"class", " ", "A", " ", "{">>,
            <<" ", " ", "m", "(", ")", " ", "{", "}">>,
            <<"}">> >>)
FunctionInFunction ==
    Text(<< <<"function", " ", "f", "(", ")", " ", "{">>,
            <<" ", " ", "function", " ", "g", "(", ")", " ", "{", "}">>,
            <<"}">> >>)
TwoFunctions ==
    Text(<< <<"function", " ", "f", "(", ")", " ", "{", "}">>,
            <<"export", " ", "async", " ", "function", " ", "g", "(", ")",
              " ", "{">>,
            <<"}">> >>)
TwoOnOneLine ==
    Text(<< <<"function", " ", "f", "(", ")", " ", "{", "}", " ",
              "function", " ", "g", "(", ")", " ", "{", "}">> >>)
ArrowFunction ==
    Text(<< <<"const", " ", "g", " ", "=", " ", "async", " ", "(", "x", ")",
              " ", "=", ">", " ", "{">>,
            <<"}", ";">> >>)
BraceOnNextLine ==
    Text(<< <<"function", " ", "f", "(", ")">>, <<"{">>, <<"}">> >>)
CommentAndType ==
    Text(<< <<"/", "/", " ", "type", " ", "T">>,
            <<"type", " ", "T", " ", "=", " ", "A", ";">> >>)
InterfaceAndClass ==
    Text(<< <<"export", " ", "interface", " ", "I", " ", "{">>,
            <<"}">>,
            <<>>,
            <<"abstract", " ", "class", " ", "A", " ", "{", "}">> >>)
NoSymbols == Text(<< <<"x", ";">> >>)
Empty == <<>>

Leaf(type, row) == SyntaxNode(type, "", row, row, <<>>)

\* line 267: parser.parse(content) of tree-sitter, for the texts of the
\* model: the nodes of the tree with their type, the text of their name
\* field and their rows
SyntaxTrees ==
    << [content |-> ClassWithMethod,
        rootNode |-> SyntaxNode("program", "", 0, 2, <<
            SyntaxNode("class_declaration", "A", 0, 2, <<
                SyntaxNode("class_body", "", 0, 2, <<
                    SyntaxNode("method_definition", "m", 1, 1, <<
                        Leaf("statement_block", 1)>>)>>)>>)>>)],
       [content |-> FunctionInFunction,
        rootNode |-> SyntaxNode("program", "", 0, 2, <<
            SyntaxNode("function_declaration", "f", 0, 2, <<
                SyntaxNode("statement_block", "", 0, 2, <<
                    SyntaxNode("function_declaration", "g", 1, 1, <<
                        Leaf("statement_block", 1)>>)>>)>>)>>)],
       [content |-> TwoFunctions,
        rootNode |-> SyntaxNode("program", "", 0, 2, <<
            SyntaxNode("function_declaration", "f", 0, 0, <<
                Leaf("statement_block", 0)>>),
            SyntaxNode("export_statement", "", 1, 2, <<
                SyntaxNode("function_declaration", "g", 1, 2, <<
                    SyntaxNode("statement_block", "", 1, 2, <<>>)>>)>>)>>)],
       [content |-> TwoOnOneLine,
        rootNode |-> SyntaxNode("program", "", 0, 0, <<
            SyntaxNode("function_declaration", "f", 0, 0, <<
                Leaf("statement_block", 0)>>),
            SyntaxNode("function_declaration", "g", 0, 0, <<
                Leaf("statement_block", 0)>>)>>)],
       [content |-> ArrowFunction,
        rootNode |-> SyntaxNode("program", "", 0, 1, <<
            SyntaxNode("lexical_declaration", "", 0, 1, <<
                SyntaxNode("variable_declarator", "g", 0, 1, <<
                    SyntaxNode("arrow_function", "", 0, 1, <<
                        SyntaxNode("statement_block", "", 0, 1, <<>>)>>)>>)>>)>>)],
       [content |-> BraceOnNextLine,
        rootNode |-> SyntaxNode("program", "", 0, 2, <<
            SyntaxNode("function_declaration", "f", 0, 2, <<
                SyntaxNode("statement_block", "", 1, 2, <<>>)>>)>>)],
       [content |-> CommentAndType,
        rootNode |-> SyntaxNode("program", "", 0, 1, <<
            Leaf("comment", 0),
            SyntaxNode("type_alias_declaration", "T", 1, 1, <<
                Leaf("type_identifier", 1)>>)>>)],
       [content |-> InterfaceAndClass,
        rootNode |-> SyntaxNode("program", "", 0, 3, <<
            SyntaxNode("export_statement", "", 0, 1, <<
                SyntaxNode("interface_declaration", "I", 0, 1, <<
                    SyntaxNode("object_type", "", 0, 1, <<>>)>>)>>),
            SyntaxNode("abstract_class_declaration", "A", 3, 3, <<
                Leaf("class_body", 3)>>)>>)],
       [content |-> NoSymbols,
        rootNode |-> SyntaxNode("program", "", 0, 0, <<
            SyntaxNode("expression_statement", "", 0, 0, <<
                Leaf("identifier", 0)>>)>>)],
       [content |-> Empty,
        rootNode |-> SyntaxNode("program", "", 0, 0, <<>>)] >>

\* the texts that are TypeScript only
TypeScriptOnly == {CommentAndType, InterfaceAndClass}

parse(content) ==
    SyntaxTrees[CHOOSE i \in DOMAIN SyntaxTrees :
                    SyntaxTrees[i].content = content].rootNode

\* lines 272-302: the switch of visit
kindOf(node, parent) ==
    CASE node.type = "function_declaration" -> "function"
      [] node.type = "arrow_function" ->
            IF parent.type = "variable_declarator" THEN "function" ELSE ""
      [] node.type = "class_declaration" -> "class"
      [] node.type = "interface_declaration" -> "interface"
      [] node.type = "type_alias_declaration" -> "type"
      [] node.type = "method_definition" -> "method"
      [] OTHER -> ""

nameOf(node, parent) ==
    CASE node.type = "arrow_function" ->
            IF parent.type = "variable_declarator" THEN parent.name ELSE ""
      [] node.type \in {"function_declaration", "class_declaration",
                        "interface_declaration", "type_alias_declaration",
                        "method_definition"} -> node.name
      [] OTHER -> ""

\* lines 271-323: visit, and its loop over node.children
RECURSIVE visitNode(_, _, _)
RECURSIVE visitChildren(_, _, _)
visitNode(node, parent, lines) ==
    (IF kindOf(node, parent) # "" /\ nameOf(node, parent) # ""
     THEN <<CodeSymbol(nameOf(node, parent), kindOf(node, parent),
                       node.startRow + 1, node.endRow + 1, lines)>>
     ELSE <<>>)
    \o visitChildren(node.children, node, lines)
visitChildren(children, node, lines) ==
    IF children = <<>> THEN <<>>
    ELSE visitNode(Head(children), node, lines)
         \o visitChildren(Tail(children), node, lines)

parseWithTreeSitter(content, language) ==
    visitNode(parse(content), NoParent, split(content, "\n"))

\* ---- lines 384-401: parseSymbols, and its callers

Symbols(list) == [t |-> "symbols", list |-> list]

ParseInputs ==
    {[content |-> SyntaxTrees[i].content, language |-> l] :
        i \in DOMAIN SyntaxTrees, l \in {"typescript", "tsx"}}
    \cup {[content |-> SyntaxTrees[i].content, language |-> l] :
            i \in {i \in DOMAIN SyntaxTrees :
                      SyntaxTrees[i].content \notin TypeScriptOnly},
            l \in {"javascript", "jsx", "python"}}

catchStructural_rethrows(content, language) == Thrown(<<"parse">>)

\* lines 395-400: the catch of parseSymbols, and the return after it
catchStructural(content, language) ==
    Symbols(parseWithRegex(content, language))

returned(value) ==
    /\ symPc' = "done"
    /\ symReturn' = value
    /\ UNCHANGED <<symContent, symLanguage, symCalls>>

\* lines 385-387
ParseUnsupported ==
    /\ symPc = "call"
    /\ symLanguage \notin Supported
    /\ returned(Symbols(<<>>))
    /\ UNCHANGED <<treeSitterAvailable, symThrew>>
    /\ UNCHANGED symRest

\* line 225
TryLoadCached ==
    /\ symPc = "call"
    /\ symLanguage \in Supported
    /\ treeSitterAvailable # "null"
    /\ symPc' = "loaded"
    /\ UNCHANGED <<treeSitterAvailable, symContent, symLanguage, symThrew,
                   symReturn, symCalls>>
    /\ UNCHANGED symRest

\* lines 227-231: the three imports succeed
TryLoadImported ==
    /\ symPc = "call"
    /\ symLanguage \in Supported
    /\ treeSitterAvailable = "null"
    /\ treeSitterAvailable' = "true"
    /\ symPc' = "loaded"
    /\ UNCHANGED <<symContent, symLanguage, symThrew, symReturn, symCalls>>
    /\ UNCHANGED symRest

\* lines 232-234: one of the imports fails
TryLoadFailed ==
    /\ symPc = "call"
    /\ symLanguage \in Supported
    /\ treeSitterAvailable = "null"
    /\ treeSitterAvailable' = "false"
    /\ symPc' = "loaded"
    /\ UNCHANGED <<symContent, symLanguage, symThrew, symReturn, symCalls>>
    /\ UNCHANGED symRest

\* lines 392-394
ParseStructural ==
    /\ symPc = "loaded"
    /\ treeSitterAvailable = "true"
    /\ returned(Symbols(parseWithTreeSitter(symContent, symLanguage)))
    /\ UNCHANGED <<treeSitterAvailable, symThrew>>
    /\ UNCHANGED symRest

\* lines 392-400: parseWithTreeSitter throws (the grammar does not load into
\* the parser, or parser.parse rejects the text)
ParseStructuralThrows ==
    /\ symPc = "loaded"
    /\ treeSitterAvailable = "true"
    /\ symThrew' = TRUE
    /\ returned(catchStructural(symContent, symLanguage))
    /\ UNCHANGED treeSitterAvailable
    /\ UNCHANGED symRest

\* lines 392, 400
ParsePattern ==
    /\ symPc = "loaded"
    /\ treeSitterAvailable = "false"
    /\ returned(Symbols(parseWithRegex(symContent, symLanguage)))
    /\ UNCHANGED <<treeSitterAvailable, symThrew>>
    /\ UNCHANGED symRest

\* cli/index.ts line 97: the next file of the loop over the scan results
ParseNextFile ==
    /\ symPc = "done"
    /\ symCalls < MaxParseCalls
    /\ \E input \in ParseInputs :
          /\ symContent' = input.content
          /\ symLanguage' = input.language
    /\ symPc' = "call"
    /\ symThrew' = FALSE
    /\ symReturn' = Undefined
    /\ symCalls' = symCalls + 1
    /\ UNCHANGED treeSitterAvailable
    /\ UNCHANGED symRest

-----------------------------------------------------------------------------
(* Specifications *)

\* One call of fitToBudget on any bounded input.
InitBudget ==
    /\ results \in BudgetInputs
    /\ config \in BudgetConfigs
    /\ budgetPc = "call"
    /\ sortedFiles = <<>>
    /\ walkPos = 1
    /\ included = <<>>
    /\ excluded = <<>>
    /\ totalTokens = 0
    /\ budgetResult = NoResult
    /\ chunkInput = <<>>
    /\ chunkOptions = NoOptions
    /\ chunkPc = "idle"
    /\ chunkPos = 1
    /\ chunks = <<>>
    /\ currentChunk = <<>>
    /\ currentTokens = 0
    /\ scanned = <<>>
    /\ tree = <<>>
    /\ cursor = 0
    /\ filter = <<>>
    /\ isSearching = FALSE
    /\ lastKey = <<>>
    /\ previewOffset = 0
    /\ loading = FALSE
    /\ appPc = "idle"
    /\ handed = NotHanded
    /\ held = NotHeld
    /\ pressed = ""
    /\ promise = "idle"
    /\ clipboard = "idle"
    /\ treeFiles = <<>>
    /\ treePc = "idle"
    /\ treeNodes = <<>>
    /\ treeBefore = <<>>
    /\ treeCall = NoCall
    /\ treeReturn = Undefined
    /\ fmtResults = <<>>
    /\ fmtOptions = NoFormatOptions
    /\ fmtPc = "idle"
    /\ fmtPos = 1
    /\ fmtLines = <<>>
    /\ fmtOutput = <<>>
    /\ tokText = <<>>
    /\ tokCall = "idle"
    /\ tokReturn = Undefined
    /\ treeSitterAvailable = "null"
    /\ symContent = <<>>
    /\ symLanguage = <<>>
    /\ symPc = "idle"
    /\ symThrew = FALSE
    /\ symReturn = Undefined
    /\ symCalls = 0

NextBudget == FitSort \/ FitInclude \/ FitExclude \/ FitReturn

SpecBudget == InitBudget /\ [][NextBudget]_vars

\* One call of splitToChunks on any bounded input.
InitChunker ==
    /\ results = <<>>
    /\ config = NoConfig
    /\ budgetPc = "idle"
    /\ sortedFiles = <<>>
    /\ walkPos = 1
    /\ included = <<>>
    /\ excluded = <<>>
    /\ totalTokens = 0
    /\ budgetResult = NoResult
    /\ chunkInput \in ChunkInputs
    /\ chunkOptions \in ChunkOptionsSet
    /\ chunkPc = "loop"
    /\ chunkPos = 1
    /\ chunks = <<>>
    /\ currentChunk = <<>>
    /\ currentTokens = 0
    /\ scanned = <<>>
    /\ tree = <<>>
    /\ cursor = 0
    /\ filter = <<>>
    /\ isSearching = FALSE
    /\ lastKey = <<>>
    /\ previewOffset = 0
    /\ loading = FALSE
    /\ appPc = "idle"
    /\ handed = NotHanded
    /\ held = NotHeld
    /\ pressed = ""
    /\ promise = "idle"
    /\ clipboard = "idle"
    /\ treeFiles = <<>>
    /\ treePc = "idle"
    /\ treeNodes = <<>>
    /\ treeBefore = <<>>
    /\ treeCall = NoCall
    /\ treeReturn = Undefined
    /\ fmtResults = <<>>
    /\ fmtOptions = NoFormatOptions
    /\ fmtPc = "idle"
    /\ fmtPos = 1
    /\ fmtLines = <<>>
    /\ fmtOutput = <<>>
    /\ tokText = <<>>
    /\ tokCall = "idle"
    /\ tokReturn = Undefined
    /\ treeSitterAvailable = "null"
    /\ symContent = <<>>
    /\ symLanguage = <<>>
    /\ symPc = "idle"
    /\ symThrew = FALSE
    /\ symReturn = Undefined
    /\ symCalls = 0

NextChunker == ChunkOversized \/ ChunkAppend \/ ChunkFlush \/ ChunkLast \/ ChunkTotal

SpecChunker == InitChunker /\ [][NextChunker]_vars

\* The App component from its mount to its exit.
InitTui ==
    /\ results = <<>>
    /\ config = NoConfig
    /\ budgetPc = "idle"
    /\ sortedFiles = <<>>
    /\ walkPos = 1
    /\ included = <<>>
    /\ excluded = <<>>
    /\ totalTokens = 0
    /\ budgetResult = NoResult
    /\ chunkInput = <<>>
    /\ chunkOptions = NoOptions
    /\ chunkPc = "idle"
    /\ chunkPos = 1
    /\ chunks = <<>>
    /\ currentChunk = <<>>
    /\ currentTokens = 0
    /\ scanned = <<>>
    /\ tree = <<>>
    /\ cursor = 0
    /\ filter = <<>>
    /\ isSearching = FALSE
    /\ lastKey = <<>>
    /\ previewOffset = 0
    /\ loading = TRUE
    /\ appPc = "running"
    /\ handed = NotHanded
    /\ held = NotHeld
    /\ pressed = ""
    /\ promise = "pending"
    /\ clipboard = "idle"
    /\ treeFiles = <<>>
    /\ treePc = "idle"
    /\ treeNodes = <<>>
    /\ treeBefore = <<>>
    /\ treeCall = NoCall
    /\ treeReturn = Undefined
    /\ fmtResults = <<>>
    /\ fmtOptions = NoFormatOptions
    /\ fmtPc = "idle"
    /\ fmtPos = 1
    /\ fmtLines = <<>>
    /\ fmtOutput = <<>>
    /\ tokText = <<>>
    /\ tokCall = "idle"
    /\ tokReturn = Undefined
    /\ treeSitterAvailable = "null"
    /\ symContent = <<>>
    /\ symLanguage = <<>>
    /\ symPc = "idle"
    /\ symThrew = FALSE
    /\ symReturn = Undefined
    /\ symCalls = 0

NextTui ==
    \/ ScanDone \/ SearchClose \/ SearchType \/ SearchErase \/ SearchOpen \/ Quit
    \/ CursorUp \/ CursorDown \/ PreviewDown \/ PreviewUp \/ HalfPageDown
    \/ HalfPageUp \/ KeyG \/ KeyBigG \/ KeyToggle \/ KeyOpen \/ KeyL \/ KeyH
    \/ KeySelectAll \/ KeyDeselectAll \/ Confirm \/ KeyZ \/ KeyOther
    \/ ClipboardWritten \/ ClipboardFailed

SpecTui == InitTui /\ [][NextTui]_vars

\* The same with what the run time guarantees: a clipboard.write under way
\* ends, by resolving or by rejecting.  Nothing obliges the user to press a
\* key.
SpecTuiLive ==
    SpecTui /\ WF_vars(ClipboardWritten) /\ WF_vars(ClipboardFailed)

\* A caller of tree-utils: buildFileTree, then any sequence of calls.
InitTree ==
    /\ results = <<>>
    /\ config = NoConfig
    /\ budgetPc = "idle"
    /\ sortedFiles = <<>>
    /\ walkPos = 1
    /\ included = <<>>
    /\ excluded = <<>>
    /\ totalTokens = 0
    /\ budgetResult = NoResult
    /\ chunkInput = <<>>
    /\ chunkOptions = NoOptions
    /\ chunkPc = "idle"
    /\ chunkPos = 1
    /\ chunks = <<>>
    /\ currentChunk = <<>>
    /\ currentTokens = 0
    /\ scanned = <<>>
    /\ tree = <<>>
    /\ cursor = 0
    /\ filter = <<>>
    /\ isSearching = FALSE
    /\ lastKey = <<>>
    /\ previewOffset = 0
    /\ loading = FALSE
    /\ appPc = "idle"
    /\ handed = NotHanded
    /\ held = NotHeld
    /\ pressed = ""
    /\ promise = "idle"
    /\ clipboard = "idle"
    /\ treeFiles \in TreeInputs
    /\ treePc = "new"
    /\ treeNodes = <<>>
    /\ treeBefore = <<>>
    /\ treeCall = NoCall
    /\ treeReturn = Undefined
    /\ fmtResults = <<>>
    /\ fmtOptions = NoFormatOptions
    /\ fmtPc = "idle"
    /\ fmtPos = 1
    /\ fmtLines = <<>>
    /\ fmtOutput = <<>>
    /\ tokText = <<>>
    /\ tokCall = "idle"
    /\ tokReturn = Undefined
    /\ treeSitterAvailable = "null"
    /\ symContent = <<>>
    /\ symLanguage = <<>>
    /\ symPc = "idle"
    /\ symThrew = FALSE
    /\ symReturn = Undefined
    /\ symCalls = 0

NextTree ==
    \/ TreeBuild \/ TreeToggleSelection \/ TreeSelectAll \/ TreeDeselectAll
    \/ TreeInvertSelection \/ TreeToggleExpand \/ TreeExpandAll \/ TreeCollapseAll
    \/ TreeToggleCurrentDir \/ TreeToggleTestFiles \/ TreeIsNodeSelected
    \/ TreeGetSelectedStats \/ TreeFlatten

SpecTree == InitTree /\ [][NextTree]_vars

\* One call of format on any bounded input.
InitFormat ==
    /\ results = <<>>
    /\ config = NoConfig
    /\ budgetPc = "idle"
    /\ sortedFiles = <<>>
    /\ walkPos = 1
    /\ included = <<>>
    /\ excluded = <<>>
    /\ totalTokens = 0
    /\ budgetResult = NoResult
    /\ chunkInput = <<>>
    /\ chunkOptions = NoOptions
    /\ chunkPc = "idle"
    /\ chunkPos = 1
    /\ chunks = <<>>
    /\ currentChunk = <<>>
    /\ currentTokens = 0
    /\ scanned = <<>>
    /\ tree = <<>>
    /\ cursor = 0
    /\ filter = <<>>
    /\ isSearching = FALSE
    /\ lastKey = <<>>
    /\ previewOffset = 0
    /\ loading = FALSE
    /\ appPc = "idle"
    /\ handed = NotHanded
    /\ held = NotHeld
    /\ pressed = ""
    /\ promise = "idle"
    /\ clipboard = "idle"
    /\ treeFiles = <<>>
    /\ treePc = "idle"
    /\ treeNodes = <<>>
    /\ treeBefore = <<>>
    /\ treeCall = NoCall
    /\ treeReturn = Undefined
    /\ fmtResults \in FormatInputs
    /\ fmtOptions \in FormatOptionsSet
    /\ fmtPc = "call"
    /\ fmtPos = 1
    /\ fmtLines = <<>>
    /\ fmtOutput = <<>>
    /\ tokText = <<>>
    /\ tokCall = "idle"
    /\ tokReturn = Undefined
    /\ treeSitterAvailable = "null"
    /\ symContent = <<>>
    /\ symLanguage = <<>>
    /\ symPc = "idle"
    /\ symThrew = FALSE
    /\ symReturn = Undefined
    /\ symCalls = 0


NextFormat ==
    \/ FormatXmlBegin \/ FormatXmlFile \/ FormatXmlReturn
    \/ FormatMarkdownBegin \/ FormatMarkdownFile \/ FormatMarkdownReturn

SpecFormat == InitFormat /\ [][NextFormat]_vars

InitTokenizer ==
    /\ results = <<>>
    /\ config = NoConfig
    /\ budgetPc = "idle"
    /\ sortedFiles = <<>>
    /\ walkPos = 1
    /\ included = <<>>
    /\ excluded = <<>>
    /\ totalTokens = 0
    /\ budgetResult = NoResult
    /\ chunkInput = <<>>
    /\ chunkOptions = NoOptions
    /\ chunkPc = "idle"
    /\ chunkPos = 1
    /\ chunks = <<>>
    /\ currentChunk = <<>>
    /\ currentTokens = 0
    /\ scanned = <<>>
    /\ tree = <<>>
    /\ cursor = 0
    /\ filter = <<>>
    /\ isSearching = FALSE
    /\ lastKey = <<>>
    /\ previewOffset = 0
    /\ loading = FALSE
    /\ appPc = "idle"
    /\ handed = NotHanded
    /\ held = NotHeld
    /\ pressed = ""
    /\ promise = "idle"
    /\ clipboard = "idle"
    /\ treeFiles = <<>>
    /\ treePc = "idle"
    /\ treeNodes = <<>>
    /\ treeBefore = <<>>
    /\ treeCall = NoCall
    /\ treeReturn = Undefined
    /\ fmtResults = <<>>
    /\ fmtOptions = NoFormatOptions
    /\ fmtPc = "idle"
    /\ fmtPos = 1
    /\ fmtLines = <<>>
    /\ fmtOutput = <<>>
    /\ tokText \in TokenizerInputs
    /\ tokCall = "none"
    /\ tokReturn = Undefined
    /\ treeSitterAvailable = "null"
    /\ symContent = <<>>
    /\ symLanguage = <<>>
    /\ symPc = "idle"
    /\ symThrew = FALSE
    /\ symReturn = Undefined
    /\ symCalls = 0

NextTokenizer ==
    \/ ParseBudget
    \/ EstimateTokens

SpecTokenizer == InitTokenizer /\ [][NextTokenizer]_vars

InitParser ==
    /\ results = <<>>
    /\ config = NoConfig
    /\ budgetPc = "idle"
    /\ sortedFiles = <<>>
    /\ walkPos = 1
    /\ included = <<>>
    /\ excluded = <<>>
    /\ totalTokens = 0
    /\ budgetResult = NoResult
    /\ chunkInput = <<>>
    /\ chunkOptions = NoOptions
    /\ chunkPc = "idle"
    /\ chunkPos = 1
    /\ chunks = <<>>
    /\ currentChunk = <<>>
    /\ currentTokens = 0
    /\ scanned = <<>>
    /\ tree = <<>>
    /\ cursor = 0
    /\ filter = <<>>
    /\ isSearching = FALSE
    /\ lastKey = <<>>
    /\ previewOffset = 0
    /\ loading = FALSE
    /\ appPc = "idle"
    /\ handed = NotHanded
    /\ held = NotHeld
    /\ pressed = ""
    /\ promise = "idle"
    /\ clipboard = "idle"
    /\ treeFiles = <<>>
    /\ treePc = "idle"
    /\ treeNodes = <<>>
    /\ treeBefore = <<>>
    /\ treeCall = NoCall
    /\ treeReturn = Undefined
    /\ fmtResults = <<>>
    /\ fmtOptions = NoFormatOptions
    /\ fmtPc = "idle"
    /\ fmtPos = 1
    /\ fmtLines = <<>>
    /\ fmtOutput = <<>>
    /\ tokText = <<>>
    /\ tokCall = "idle"
    /\ tokReturn = Undefined
    /\ treeSitterAvailable = "null"
    /\ \E input \in ParseInputs :
          /\ symContent = input.content
          /\ symLanguage = input.language
    /\ symPc = "call"
    /\ symThrew = FALSE
    /\ symReturn = Undefined
    /\ symCalls = 1

NextParser ==
    \/ ParseUnsupported
    \/ TryLoadCached \/ TryLoadImported \/ TryLoadFailed
    \/ ParseStructural \/ ParseStructuralThrows \/ ParsePattern
    \/ ParseNextFile

SpecParser == InitParser /\ [][NextParser]_vars

-----------------------------------------------------------------------------
(* Properties of fitToBudget (SpecBudget) *)

Count(seq, x) == Cardinality({k \in DOMAIN seq : seq[k] = x})

BudgetDone == budgetPc = "done"

\* C1: every input file is in exactly one of included / excluded, exactly
\* once, and neither list holds a file that was not in the input.
C1_Partition ==
    BudgetDone =>
        /\ \A i \in DOMAIN results :
              Count(budgetResult.included, results[i])
                + Count(budgetResult.excluded, results[i]) = 1
        /\ Range(budgetResult.included) \cup Range(budgetResult.excluded)
              \subseteq Range(results)
        /\ Len(budgetResult.included) + Len(budgetResult.excluded) = Len(results)

C1_Witness ==
    /\ BudgetDone
    /\ Len(results) >= 3
    /\ budgetResult.included # <<>>
    /\ budgetResult.excluded # <<>>

\* C2 as stated: budgetUsed <= maxTokens - reserveTokens for every config,
\* reserveTokens > maxTokens included.
C2_CeilingAlways ==
    BudgetDone => budgetResult.budgetUsed <= effectiveBudget(config)

\* C2 amended: budgetUsed <= maxTokens - reserveTokens whenever that ceiling is
\* not negative; under a negative ceiling nothing is included and budgetUsed
\* is 0 (which is above the ceiling).
C2_CeilingNonNegative ==
    BudgetDone =>
        /\ effectiveBudget(config) >= 0
              => budgetResult.budgetUsed <= effectiveBudget(config)
        /\ effectiveBudget(config) < 0
              => budgetResult.budgetUsed = 0 /\ budgetResult.included = <<>>

C2_Witness ==
    /\ BudgetDone
    /\ effectiveBudget(config) >= 0
    /\ budgetResult.budgetUsed = effectiveBudget(config)
    /\ budgetResult.budgetUsed > 0
    /\ budgetResult.excluded # <<>>

\* The non-priority files that may stand in for results[i]: a path of the
\* universe that matches no pattern and is not another input file's path.
Replacements(i) ==
    {q \in ScanResults(BudgetPaths, MaxFileTokens) :
        /\ ~priorityMatch(q.path, config.priorityPatterns)
        /\ \A j \in DOMAIN results : j # i => results[j].path # q.path}

IsPriorityCandidate(i) ==
    /\ priorityMatch(results[i].path, config.priorityPatterns)
    /\ results[i].tokens <= effectiveBudget(config)

ReplacementIncluded(i, q) ==
    q \in Range(fitToBudget([results EXCEPT ![i] = q], config).included)

\* C3 as stated: a priority file p that fits the ceiling alone is included
\* whenever a non-priority file of equal or smaller token count, put in its
\* place, would be included.
C3_PriorityDominatesSmaller ==
    BudgetDone =>
        \A i \in DOMAIN results :
            IsPriorityCandidate(i) =>
                \A q \in Replacements(i) :
                    (q.tokens <= results[i].tokens /\ ReplacementIncluded(i, q))
                        => results[i] \in Range(budgetResult.included)

\* C3 amended: a priority file p that fits the ceiling alone is included
\* whenever a non-priority file of the same token count, put in its place,
\* would be included.
C3_PriorityDominatesEqual ==
    BudgetDone =>
        \A i \in DOMAIN results :
            IsPriorityCandidate(i) =>
                \A q \in Replacements(i) :
                    (q.tokens = results[i].tokens /\ ReplacementIncluded(i, q))
                        => results[i] \in Range(budgetResult.included)

\* A priority file that fits alone, whose equal-size non-priority replacement
\* would be included, in a run that also excludes some file.
C3_Witness ==
    /\ BudgetDone
    /\ budgetResult.excluded # <<>>
    /\ \E i \in DOMAIN results :
          /\ IsPriorityCandidate(i)
          /\ results[i].tokens > 0
          /\ \E q \in Replacements(i) :
                q.tokens = results[i].tokens /\ ReplacementIncluded(i, q)

\* the running total when the loop reaches sortedFiles[k]
RunningTotal(k) ==
    SumTokens(SelectSeq([j \in 1..(k - 1) |-> sortedFiles[j].result],
                        LAMBDA r : r \in Range(budgetResult.included)))

\* C4: the walk reaches the end of the sorted list, a file is included iff
\* running total + its tokens <= ceiling at its turn, and no excluded file
\* could still be added: budgetUsed + tokens(f) > ceiling for each.
C4_GreedyMaximal ==
    BudgetDone =>
        /\ Len(budgetResult.included) + Len(budgetResult.excluded) = Len(sortedFiles)
        /\ \A k \in DOMAIN sortedFiles :
              (sortedFiles[k].result \in Range(budgetResult.included))
                 <=> (RunningTotal(k) + sortedFiles[k].tokens <= effectiveBudget(config))
        /\ \A k \in DOMAIN budgetResult.excluded :
              budgetResult.budgetUsed + budgetResult.excluded[k].tokens
                 > effectiveBudget(config)

\* An excluded file is followed in the sorted list by an included one.
C4_Witness ==
    /\ BudgetDone
    /\ \E j, k \in DOMAIN sortedFiles :
          /\ j < k
          /\ sortedFiles[j].result \in Range(budgetResult.excluded)
          /\ sortedFiles[k].result \in Range(budgetResult.included)

\* C5: budgetUsed = totalTokens = sum of the included files' tokens,
\* budgetRemaining = ceiling - budgetUsed, and budgetRemaining is negative
\* only when the ceiling is negative.
C5_Accounting ==
    BudgetDone =>
        /\ budgetResult.budgetUsed = budgetResult.totalTokens
        /\ budgetResult.totalTokens = SumTokens(budgetResult.included)
        /\ budgetResult.budgetRemaining
              = effectiveBudget(config) - budgetResult.budgetUsed
        /\ budgetResult.budgetRemaining < 0 => effectiveBudget(config) < 0

C5_Witness ==
    /\ BudgetDone
    /\ budgetResult.budgetUsed > 0
    /\ budgetResult.budgetRemaining > 0
    /\ budgetResult.excluded # <<>>

-----------------------------------------------------------------------------
(* Properties of splitToChunks (SpecChunker) *)

ChunkDone == chunkPc = "done"

IsOversized(f) == f.tokens > chunkOptions.maxTokensPerChunk

\* The files of chunks[k] without the files repeated from chunks[k-1] at its
\* start.  The input paths are distinct, so a file of a chunk is a repetition
\* iff it is also in the chunk before.
RECURSIVE dropRepeated(_, _)
dropRepeated(files, previous) ==
    IF files # <<>> /\ Head(files) \in Range(previous)
    THEN dropRepeated(Tail(files), previous)
    ELSE files

ownFiles(k) ==
    IF k = 1 THEN chunks[k].files
    ELSE dropRepeated(chunks[k].files, chunks[k - 1].files)

RECURSIVE concatOwn(_)
concatOwn(k) == IF k = 0 THEN <<>> ELSE concatOwn(k - 1) \o ownFiles(k)

\* C6: the chunks' file lists, each without the overlap files repeated at its
\* start, concatenated in chunk order, are the input list in input order.
C6_ChunkCoverage ==
    ChunkDone => concatOwn(Len(chunks)) = chunkInput

\* Three chunks or more, one of which starts with repeated files.
C6_Witness ==
    /\ ChunkDone
    /\ Len(chunks) >= 3
    /\ chunkOptions.overlap > 0
    /\ \E k \in 2..Len(chunks) : Len(ownFiles(k)) < Len(chunks[k].files)

\* C7: every chunk's token sum is <= maxTokensPerChunk unless the chunk is a
\* singleton holding one oversized file, chunks that start with overlap files
\* included.
C7_ChunkCeiling ==
    ChunkDone =>
        \A k \in DOMAIN chunks :
            \/ SumTokens(chunks[k].files) <= chunkOptions.maxTokensPerChunk
            \/ Len(chunks[k].files) = 1 /\ IsOversized(chunks[k].files[1])

\* C8: an oversized file is returned in a chunk of its own and in no other
\* chunk; the chunk before it ends with the file before it, the chunk after it
\* starts with the file after it (nothing carried across).  Token counts
\* <<1, 1, 3, 1>> under a ceiling of 2 (the scenario <<1, 1, 1200, 1>> under
\* 50, scaled) give the chunks [f1, f2], [f3], [f4].
C8_OversizedAlone ==
    ChunkDone =>
        /\ \A i \in DOMAIN chunkInput :
              IsOversized(chunkInput[i]) =>
                 \E k \in DOMAIN chunks :
                    /\ chunks[k].files = <<chunkInput[i]>>
                    /\ \A m \in DOMAIN chunks :
                          m # k => chunkInput[i] \notin Range(chunks[m].files)
                    /\ i > 1 =>
                          /\ k > 1
                          /\ chunks[k - 1].files[Len(chunks[k - 1].files)]
                                = chunkInput[i - 1]
                    /\ i < Len(chunkInput) =>
                          /\ k < Len(chunks)
                          /\ chunks[k + 1].files[1] = chunkInput[i + 1]
        /\ ([i \in DOMAIN chunkInput |-> chunkInput[i].tokens] = <<1, 1, 3, 1>>
              /\ chunkOptions.maxTokensPerChunk = 2)
              => [k \in DOMAIN chunks |-> chunks[k].files]
                    = << <<chunkInput[1], chunkInput[2]>>, <<chunkInput[3]>>,
                         <<chunkInput[4]>> >>

\* The scenario of C8 has run, with an overlap asked for.
C8_Witness ==
    /\ ChunkDone
    /\ [i \in DOMAIN chunkInput |-> chunkInput[i].tokens] = <<1, 1, 3, 1>>
    /\ chunkOptions.maxTokensPerChunk = 2
    /\ chunkOptions.overlap > 0
    /\ Len(chunks) = 3

\* C9: in the returned list the chunk at position i (0-based) has index i and
\* every chunk's total is the number of chunks returned.
C9_IndexAndTotal ==
    ChunkDone =>
        \A k \in DOMAIN chunks :
            /\ chunks[k].index = k - 1
            /\ chunks[k].total = Len(chunks)

C9_Witness ==
    /\ ChunkDone
    /\ Len(chunks) >= 3
    /\ \E k \in DOMAIN chunks : Len(chunks[k].files) >= 2

-----------------------------------------------------------------------------
(* Properties of the TUI (SpecTui) *)

\* the leaf with this path has selected = true in the current tree
LeafSelected(path) ==
    \E n \in Nodes(tree) : n.path = path /\ ~n.isDir /\ n.selected

\* C10: on confirm (`c` or `ZZ`) the list handed to the formatter is exactly
\* the scanned files whose leaf is selected in the current tree, in scan
\* order, wherever the files sit in the forest.
C10_ConfirmHandsSelected ==
    handed.confirmed =>
        handed.files = SelectSeq(scanned, LAMBDA r : LeafSelected(r.path))

-----------------------------------------------------------------------------
(* Properties of tree-utils (SpecTree) *)

Returned(fn) == treePc = "built" /\ treeCall.fn = fn

HasNode(nodes, path) == \E n \in Nodes(nodes) : n.path = path

\* C11: isNodeSelected(forest, path) returns the selected flag of the node
\* with that path, whatever the shape of the forest, and does not answer
\* false for a path of no node.
C11_IsNodeSelectedFlag ==
    Returned("isNodeSelected") =>
        IF HasNode(treeNodes, treeCall.path)
        THEN \A n \in Nodes(treeNodes) :
                 n.path = treeCall.path => treeReturn = n.selected
        ELSE treeReturn # FALSE

Leaves(nodes) == {n \in Nodes(nodes) : ~n.isDir}

\* C12: immediately after selectAll the count reported by getSelectedStats is
\* the number of leaves of the tree (files of 0 tokens included), and
\* immediately after deselectAll it is 0.
C12_SelectAllCount ==
    /\ Returned("selectAll") =>
           getSelectedStats(treeNodes).count = Cardinality(Leaves(treeNodes))
    /\ Returned("deselectAll") => getSelectedStats(treeNodes).count = 0

\* the node of a forest with this path
NodeAt(nodes, path) == CHOOSE n \in Nodes(nodes) : n.path = path

Paths(nodes) == {n.path : n \in Nodes(nodes)}

\* two forests of the same nodes that differ at most in their flags
SameShape(a, b) ==
    /\ Paths(a) = Paths(b)
    /\ \A p \in Paths(a) : NodeAt(a, p).isDir = NodeAt(b, p).isDir

\* C13: invertSelection flips the selected flag of every leaf and leaves the
\* selected flag of every directory and every expanded flag as they were.
C13_InvertFlipsLeaves ==
    Returned("invertSelection") =>
        /\ SameShape(treeBefore, treeNodes)
        /\ \A p \in Paths(treeBefore) :
              LET old == NodeAt(treeBefore, p)
                  new == NodeAt(treeNodes, p)
              IN /\ new.expanded = old.expanded
                 /\ new.selected = (IF old.isDir THEN old.selected ELSE ~old.selected)

\* C13: two calls of invertSelection in a row give back the tree as it was
\* before the first.
C13_InvertTwice ==
    [][(Returned("invertSelection") /\ treeCall'.fn = "invertSelection")
          => treeNodes' = treeBefore]_vars

C14_ToggleSelection ==
    (Returned("toggleSelection") /\ HasNode(treeBefore, treeCall.path)) =>
        LET old == NodeAt(treeBefore, treeCall.path)
            new == NodeAt(treeNodes, treeCall.path)
        IN /\ SameShape(treeBefore, treeNodes)
           /\ IF ~old.isDir
              THEN \A p \in Paths(treeBefore) :
                       NodeAt(treeNodes, p).selected =
                           (IF p = treeCall.path THEN ~old.selected
                            ELSE NodeAt(treeBefore, p).selected)
              ELSE LET anyUnselected == \E c \in Leaves(old.children) : ~c.selected
                   IN \A c \in Leaves(new.children) : c.selected = anyUnselected

\* a directory whose children are two leaves, exactly one of them selected
TwoLeavesOneSelected(node) ==
    /\ node.isDir
    /\ Len(node.children) = 2
    /\ \A i \in 1..2 : ~node.children[i].isDir
    /\ node.children[1].selected # node.children[2].selected

\* C15: toggleCurrentDirSelection on a directory takes anySelected over the
\* selected flags of its direct children; the directory and everything below
\* it become unselected if anySelected and selected otherwise, and nothing
\* else changes.  On a path that is not a directory nothing changes.
C15_DirState ==
    Returned("toggleCurrentDirSelection") =>
        IF HasNode(treeBefore, treeCall.path) /\ NodeAt(treeBefore, treeCall.path).isDir
        THEN LET old == NodeAt(treeBefore, treeCall.path)
                 new == NodeAt(treeNodes, treeCall.path)
                 anySelected == \E i \in DOMAIN old.children : old.children[i].selected
                 below == Paths(<<old>>)
             IN /\ SameShape(treeBefore, treeNodes)
                /\ \A p \in Paths(treeBefore) :
                      /\ NodeAt(treeNodes, p).expanded = NodeAt(treeBefore, p).expanded
                      /\ NodeAt(treeNodes, p).selected =
                             (IF p \in below THEN ~anySelected
                              ELSE NodeAt(treeBefore, p).selected)
        ELSE treeNodes = treeBefore

\* C15: on a directory of two leaves with one selected, the first call
\* deselects both and a second call selects both.
C15_DirTwice ==
    [][(/\ Returned("toggleCurrentDirSelection")
        /\ HasNode(treeBefore, treeCall.path)
        /\ TwoLeavesOneSelected(NodeAt(treeBefore, treeCall.path))
        /\ treeCall' = treeCall)
          => /\ \A c \in Nodes(NodeAt(treeNodes, treeCall.path).children) : ~c.selected
             /\ \A c \in Nodes(NodeAt(treeNodes', treeCall.path).children) : c.selected]_vars

\* C15: toggleCurrentDirSelection decides on the direct children of the
\* directory, writes the decision to the directory and below it, leaves a
\* non-directory alone, and on two leaves with one selected deselects both,
\* then selects both.
C15_ToggleCurrentDir == []C15_DirState /\ C15_DirTwice

\* the call has acted on a directory of two leaves with one selected
C15_Witness ==
    /\ Returned("toggleCurrentDirSelection")
    /\ HasNode(treeBefore, treeCall.path)
    /\ TwoLeavesOneSelected(NodeAt(treeBefore, treeCall.path))
    /\ \A c \in Nodes(NodeAt(treeNodes, treeCall.path).children) : ~c.selected

\* the directories of a forest that have the node of this path below them
Ancestors(nodes, path) == {a \in Nodes(nodes) : a.isDir /\ HasNode(a.children, path)}

\* the place of a node in a forest: the child indices from the top down
RECURSIVE Place(_, _)
Place(nodes, path) ==
    LET i == CHOOSE i \in DOMAIN nodes :
                 nodes[i].path = path \/ HasNode(nodes[i].children, path)
    IN IF nodes[i].path = path THEN <<i>>
       ELSE <<i>> \o Place(nodes[i].children, path)

\* a comes before b in depth-first pre-order: a is above b, or a's branch
\* is an earlier sibling of b's branch where the two places part
RECURSIVE Precedes(_, _)
Precedes(a, b) ==
    IF a = <<>> THEN b # <<>>
    ELSE IF b = <<>> THEN FALSE
    ELSE IF Head(a) # Head(b) THEN Head(a) < Head(b)
    ELSE Precedes(Tail(a), Tail(b))

\* C16: flattenTree returns nodes of the forest in depth-first pre-order, each
\* with its number of ancestors as depth; a node is in the result iff all its
\* ancestor directories are expanded, and then it is there exactly once.
C16_Flatten ==
    Returned("flattenTree") =>
        /\ \A i \in DOMAIN treeReturn :
              /\ treeReturn[i].node \in Nodes(treeNodes)
              /\ treeReturn[i].depth
                    = Cardinality(Ancestors(treeNodes, treeReturn[i].node.path))
        /\ \A n \in Nodes(treeNodes) :
              (\E i \in DOMAIN treeReturn : treeReturn[i].node = n)
                  <=> \A a \in Ancestors(treeNodes, n.path) : a.expanded
        /\ \A i, j \in DOMAIN treeReturn :
              i < j => Precedes(Place(treeNodes, treeReturn[i].node.path),
                                Place(treeNodes, treeReturn[j].node.path))

\* a tree with a collapsed directory below an expanded one has been flattened
C16_Witness ==
    /\ Returned("flattenTree")
    /\ Len(treeReturn) >= 3
    /\ \E i \in DOMAIN treeReturn :
          /\ treeReturn[i].depth = 1
          /\ treeReturn[i].node.isDir
          /\ ~treeReturn[i].node.expanded
    /\ \E n \in Nodes(treeNodes) : \A i \in DOMAIN treeReturn : treeReturn[i].node # n

\* the proper prefixes of a path that end before a separator
Prefixes(path) == {SubSeq(path, 1, i - 1) : i \in {i \in DOMAIN path : path[i] = "/"}}

\* the names from the top of a forest down to a place, joined by "/"
RECURSIVE NameChain(_, _)
NameChain(nodes, place) ==
    IF Len(place) = 1 THEN nodes[place[1]].name
    ELSE nodes[place[1]].name \o <<"/">>
            \o NameChain(nodes[place[1]].children, Tail(place))

\* C18: buildFileTree mirrors the scanned files, whatever the names of the
\* path components: one leaf per file, carrying the file's path and record,
\* one directory per proper prefix of a path, children exactly on
\* directories, every path the joined chain of names, and no path twice.
C18_TreeMirrorsFiles ==
    Returned("buildFileTree") =>
        /\ Cardinality(Leaves(treeNodes)) = Len(treeFiles)
        /\ \A i \in DOMAIN treeFiles :
              \E n \in Leaves(treeNodes) :
                  n.path = treeFiles[i].path /\ n.result = Scan(treeFiles[i])
        /\ {n.path : n \in Nodes(treeNodes) \ Leaves(treeNodes)}
              = UNION {Prefixes(treeFiles[i].path) : i \in DOMAIN treeFiles}
        /\ \A n \in Nodes(treeNodes) :
              /\ n.isDir <=> n.children # <<>>
              /\ n.isDir <=> n.result = Undefined
              /\ n.path = NameChain(treeNodes, Place(treeNodes, n.path))
        /\ Cardinality(Paths(treeNodes)) = Cardinality(Nodes(treeNodes))

\* C28: after any sequence of the tree operations on a freshly built tree,
\* a directory whose selected flag is true has every leaf beneath it
\* selected.
C28_DirectoryConsistent ==
    treePc = "built" =>
        \A n \in Nodes(treeNodes) :
            (n.isDir /\ n.selected) =>
                \A leaf \in Leaves(n.children) : leaf.selected

-----------------------------------------------------------------------------
(* Properties of the tree updates of the App (SpecTui) *)

\* the tree object that was current before the last update still holds what
\* it held when it was current
C17_HeldUnchanged == held.now = held.was

\* the paths of a node and of everything below it
Subtree(nodes, path) == Paths(<<NodeAt(nodes, path)>>)

\* new differs from old by one whole write: one value for the selected flags
\* of a whole subtree or of the whole forest, or one directory's expanded
\* flag, and nothing else
WholeWrite(old, new) ==
    /\ SameShape(old, new)
    /\ \/ \E S \in {Subtree(old, q) : q \in Paths(old)} \cup {Paths(old)} :
             \E v \in BOOLEAN :
                 \A p \in Paths(old) :
                     /\ NodeAt(new, p).expanded = NodeAt(old, p).expanded
                     /\ NodeAt(new, p).selected =
                            (IF p \in S THEN v ELSE NodeAt(old, p).selected)
       \/ \E q \in Paths(old) :
             /\ NodeAt(old, q).isDir
             /\ \A p \in Paths(old) :
                   /\ NodeAt(new, p).selected = NodeAt(old, p).selected
                   /\ NodeAt(new, p).expanded =
                          (IF p = q THEN ~NodeAt(old, p).expanded
                           ELSE NodeAt(old, p).expanded)

\* every tree a key publishes differs from the one before by a whole write
C17_WholeUpdates == [][(~loading /\ tree' # tree) => WholeWrite(tree, tree')]_vars

\* C17: every tree-mutating key works on a deep copy and publishes it whole:
\* the tree that was current before keeps its flags, and no published tree
\* shows a bulk write on part of the affected subtree only.
C17_CloneAndPublish == []C17_HeldUnchanged /\ C17_WholeUpdates

\* a directory and the leaf below it were selected by one key while a reader
\* held the tree in which they were not
C17_Witness ==
    /\ ~loading
    /\ held.was # tree
    /\ \E n \in Nodes(tree) :
          /\ n.isDir /\ n.selected
          /\ \E c \in Leaves(n.children) : c.selected
          /\ \A m \in Nodes(<<NodeAt(held.was, n.path)>>) : ~m.selected

-----------------------------------------------------------------------------
(* Properties of the keys of the App (SpecTui, SpecTuiLive) *)

\* what the documented table lists for a key: the tree after it
Listed(key) ==
    CASE key \in {"x", " "} ->
            IF HasItem THEN toggleSelection(tree, Item.node.path) ELSE tree
      [] key = "a" -> selectAll(tree)
      [] key = "u" -> deselectAll(tree)
      [] key = "i" -> invertSelection(tree)
      [] key = "e" -> expandAll(tree)
      [] key = "E" -> collapseAll(tree)
      [] key = "*" ->
            IF HasItem /\ Item.node.isDir
            THEN toggleCurrentDirSelection(tree, Item.node.path)
            ELSE tree
      [] key = "t" -> toggleTestFiles(tree)

\* C26: outside search mode every key of the documented table does what the
\* table lists: x and Space toggle the row under the cursor, a selects all,
\* u deselects all, i inverts the selection of every file, e expands all and
\* E collapses all directories, * toggles the current directory, t toggles
\* the test files.
C26_KeysAct ==
    [][(Browsing /\ pressed' \in {"x", " ", "a", "u", "i", "e", "E", "*", "t"})
          => tree' = Listed(pressed')]_vars

\* the keys the handler has a branch for do what the table lists
C26_HandledKeys ==
    [][(Browsing /\ pressed' \in {"x", " ", "a", "u"})
          => tree' = Listed(pressed')]_vars

\* the cursor jumps to the top on g only when the key before was g
C27_TopAfterG ==
    [][(Browsing /\ pressed' = "g" /\ cursor # 0 /\ cursor' = 0)
          => pressed = "g"]_vars

\* Z confirms only when the key before was Z
C27_ConfirmAfterZ ==
    [][(Browsing /\ pressed' = "Z" /\ handed'.confirmed) => pressed = "Z"]_vars

\* after a key the pending first key is that key or none: any other key
\* cancels it
C27_OtherKeyCancels ==
    [][(Browsing /\ pressed' # "") => lastKey' \in {<<>>, <<pressed'>>}]_vars

\* the second g of gg leaves no pending key
C27_CompletedClears ==
    [][(Browsing /\ pressed' = "g" /\ lastKey = <<"g">>) => lastKey' = <<>>]_vars

\* C27: gg and ZZ fire only on two consecutive presses of the same key, any
\* other key pressed in between cancels the pending first key, and a
\* completed command clears it.
C27_TwoKeyCommands ==
    /\ C27_TopAfterG
    /\ C27_ConfirmAfterZ
    /\ C27_OtherKeyCancels
    /\ C27_CompletedClears

\* C29: the cursor is never negative, and it is a row of the visible list
\* whenever that list is not empty.
C29_CursorValid ==
    Running =>
        /\ cursor >= 0
        /\ flatList # <<>> => cursor <= Len(flatList) - 1

\* C30: whenever the TUI exits, by confirm or by quit, the promise returned
\* by launchTUI eventually settles.
C30_PromiseSettles == (appPc = "exited") ~> (promise # "pending")

\* on confirm without the clipboard the promise is resolved at once
C30_ConfirmResolves ==
    (appPc = "exited" /\ handed.confirmed /\ clipboard = "idle") =>
        promise = "resolved"

-----------------------------------------------------------------------------
(* Properties of format (SpecFormat) *)

FormatDone(format) == fmtPc = "done" /\ fmtOptions.format = format

\* the escape of one character
EscapeChar(c) ==
    IF c = "&" THEN Amp ELSE IF c = "<" THEN Lt ELSE IF c = ">" THEN Gt ELSE <<c>>

\* every character of a string escaped once, none of the result escaped again
RECURSIVE EscapeEach(_)
EscapeEach(s) == IF s = <<>> THEN <<>> ELSE EscapeChar(s[1]) \o EscapeEach(Tail(s))

\* the body line of the i-th file in the lines of an XML output: each file
\* has three lines, and two lines follow the last file
XmlBody(i) == fmtLines[Len(fmtLines) - 2 - 3 * (Len(fmtResults) - i) - 1]

\* C19: in XML output the body of every file is its selected content with
\* each `&`, `<` and `>` replaced by its entity exactly once: no character
\* that a substitution brought in is escaped again.
C19_XmlEscapedOnce ==
    FormatDone("xml") =>
        /\ fmtOutput = join(fmtLines, <<"\n">>)
        /\ \A i \in DOMAIN fmtResults :
              XmlBody(i) = EscapeEach(getFileContent(fmtResults[i], fmtOptions))

\* an XML output of a content that holds all three reserved characters
C19_Witness ==
    /\ FormatDone("xml")
    /\ \E i \in DOMAIN fmtResults :
          /\ getFileContent(fmtResults[i], fmtOptions) = fmtResults[i].content
          /\ {"&", "<", ">"} \subseteq Range(fmtResults[i].content)
          /\ XmlBody(i) # fmtResults[i].content

\* the body line of the i-th file in the lines of a Markdown output: each
\* file has four lines and they are the last ones
MarkdownBody(i) == fmtLines[Len(fmtLines) - 4 * (Len(fmtResults) - i) - 2]

\* compact mode decides the body of this file
Compacted(result) ==
    /\ isSet(fmtOptions.compact)
    /\ ~(/\ isSet(fmtOptions.signaturesOnly)
         /\ fmtOptions.symbols # Undefined
         /\ fmtOptions.symbols.m[result.path] # <<>>)

IsBlank(line) == \A k \in DOMAIN line : IsWhitespace(line[k])

\* a comment-only line of the language's comment style
IsCommentLine(line, language) ==
    LET text == trim(line)
    IN \/ /\ language \in CLike
          /\ startsWith(text, <<"/", "/">>)
          /\ ~startsWith(text, <<"/", "/", "/">>)
       \/ /\ language = <<"python">>
          /\ startsWith(text, <<"#">>)
          /\ ~startsWith(text, <<"#", "!">>)

\* C20: the output of compact mode never holds two adjacent blank lines, and
\* its other lines are the lines of the content that are neither blank nor
\* comment-only, unchanged and in their order.
C20_CompactBlankRuns ==
    FormatDone("markdown") =>
        \A i \in DOMAIN fmtResults :
            Compacted(fmtResults[i]) =>
                LET before == split(fmtResults[i].content, "\n")
                    after == split(MarkdownBody(i), "\n")
                IN /\ \A k \in 1..(Len(after) - 1) :
                         ~(IsBlank(after[k]) /\ IsBlank(after[k + 1]))
                   /\ SelectSeq(after, LAMBDA l : ~IsBlank(l))
                        = SelectSeq(before, LAMBDA l :
                              ~IsBlank(l) /\ ~IsCommentLine(l, fmtResults[i].language))

\* C21: a format selector other than markdown and xml makes format fail: no
\* lines are produced for it and nothing is returned.
C21_UnknownFormatFails ==
    fmtOptions.format \notin {"markdown", "xml"} =>
        /\ fmtPc \notin {"files", "done"}
        /\ fmtLines = <<>>
        /\ fmtOutput = <<>>

-----------------------------------------------------------------------------
(* Properties of the tokenizer *)

\* a decimal number: digits, optionally "." and more digits
DecimalNumber(s) ==
    \E i \in 1..Len(s) :
        /\ \A j \in 1..i : isDigit(s[j])
        /\ \/ i = Len(s)
           \/ /\ i + 1 < Len(s)
              /\ s[i + 1] = "."
              /\ \A j \in (i + 2)..Len(s) : isDigit(s[j])

HasSuffixK(s) == s # <<>> /\ s[Len(s)] \in {"k", "K"}

WithoutSuffixK(s) == IF HasSuffixK(s) THEN SubSeq(s, 1, Len(s) - 1) ELSE s

\* floor(value * scale) of the decimal number s, in exact arithmetic
ExactFloor(s, scale) ==
    (digitsNumber(mantissa(s)) * scale) \div Pow10(fractionDigits(s))

\* C22: parseBudget accepts exactly a decimal number optionally followed by
\* one k or K, and returns floor(value), or floor(value * 1000) with the
\* suffix; every other string raises the format error.
C22_ParseBudget ==
    tokCall = "parseBudget" =>
        IF DecimalNumber(WithoutSuffixK(tokText))
        THEN tokReturn =
                 Num(ExactFloor(WithoutSuffixK(tokText),
                                IF HasSuffixK(tokText) THEN 1000 ELSE 1))
        ELSE tokReturn.t = "error"

\* a text of CJK ideographs only, and the Latin text of the same length
AllCjk(s) == \A i \in DOMAIN s : s[i] \in {"U+4E2D", "U+3400"}
Latin(n) == [i \in 1..n |-> "a"]

\* C23: for every length n >= 1 the estimate of n CJK characters is strictly
\* greater than the estimate of n Latin characters.
C23_CjkDenser ==
    (tokCall = "estimateTokens" /\ tokText # <<>> /\ AllCjk(tokText)) =>
        tokReturn.n > estimateTokens(Latin(Len(tokText)))

-----------------------------------------------------------------------------
(* Properties of the parser *)

ParseDone == symPc = "done" /\ symLanguage \in Supported

Overlap(a, b) == a.startLine <= b.endLine /\ b.startLine <= a.endLine

\* C24: the list parseSymbols returns for a content in a supported language
\* is in ascending order of startLine, no two of its spans overlap, and every
\* span lies within the lines of the content, whichever tier made the list.
C24_SpansOrderedDisjoint ==
    ParseDone =>
        LET list == symReturn.list
        IN /\ \A i, j \in DOMAIN list :
                 i < j => /\ list[i].startLine <= list[j].startLine
                          /\ ~Overlap(list[i], list[j])
           /\ \A i \in DOMAIN list :
                 /\ 1 <= list[i].startLine
                 /\ list[i].startLine <= list[i].endLine
                 /\ list[i].endLine <= Len(split(symContent, "\n"))

\* the same for the lists of the line-pattern tier alone
C24_PatternTier ==
    (ParseDone /\ (treeSitterAvailable = "false" \/ symThrew)) =>
        C24_SpansOrderedDisjoint

C25_Fallback ==
    symPc = "done" =>
        /\ symReturn.t = "symbols"
        /\ symLanguage \notin Supported => symReturn.list = <<>>
        /\ (symLanguage \in Supported
                /\ (treeSitterAvailable = "false" \/ symThrew)) =>
            symReturn.list = parseWithRegex(symContent, symLanguage)

C25_DecisionKept ==
    [][treeSitterAvailable # "null" =>
           treeSitterAvailable' = treeSitterAvailable]_vars

\* C25: parseSymbols never raises because of the structural tier: when the
\* tier is unavailable or throws on a file the call returns the list of the
\* line-pattern tier for that file, an unsupported language returns the
\* empty list, and the availability decided on the first call is kept by
\* every later call, a failure on one file included.
C25_ParseSymbols == []C25_Fallback /\ C25_DecisionKept

\* the second file's structural parse threw after the tier had loaded, and
\* the line-pattern tier found symbols in it
C25_Witness ==
    /\ symPc = "done"
    /\ symCalls = 2
    /\ symThrew
    /\ treeSitterAvailable = "true"
    /\ symReturn.t = "symbols"
    /\ symReturn.list # <<>>

=============================================================================
